---- MODULE Spec2Model ----
(***************************************************************************)
(* A model of the ox tree-walking evaluator (src/oxlang/runtime.py).       *)
(*                                                                         *)
(* Representation                                                          *)
(*   - a Python str is a sequence of atoms (TLA+ strings); its length is   *)
(*     the sum of the atoms' lengths.  "p.x" is <<"p", ".", "x">>.         *)
(*   - a Python dict lives in the heap (dicts are shared by reference);    *)
(*     a context is the heap address of its dict.                          *)
(*   - a visitor returns [st, val, exc]: the runtime state after it, the   *)
(*     value it returns and the exception it raised (NoExc when none).     *)
(***************************************************************************)
EXTENDS Integers, Sequences, FiniteSets, TLC

VARIABLES
    context,    \* Runtime.context: heap address of the global namespace
    heap,       \* the dicts allocated so far, by address
    lib_paths,  \* Runtime.lib_paths: the ordered library roots
    code,       \* Runtime.code: the lines of the text executed last
    last,       \* the last operation of the host, with its outcome
    calls,      \* number of host operations so far
    parser,     \* a Parser the host uses directly: pragmas, context_stack, code
    shell,      \* Shell.interact around the Runtime: code, counter, complete
    scorpion    \* a stream of Scorpion bytecode: bytes dumped, instructions loaded

\* the objects of the host other than its Runtime
outside == <<parser, shell, scorpion>>

vars == <<context, heap, lib_paths, code, last, calls, outside>>

-----------------------------------------------------------------------------
(* Bounds *)

MaxCalls == 2       \* host operations per behaviour
MaxDepth == 3       \* nesting of ox function calls before RecursionError
MaxIter  == 6       \* loop iterations followed before the run is cut off

-----------------------------------------------------------------------------
(* Python strings and lists *)

Min(a, b) == IF a < b THEN a ELSE b
Max(a, b) == IF a > b THEN a ELSE b

RECURSIVE len(_)
len(s) == IF s = <<>> THEN 0 ELSE Len(Head(s)) + len(Tail(s))

Ellipsis == <<".", ".", ".">>

endswith(s, suffix) ==
    /\ Len(s) >= Len(suffix)
    /\ SubSeq(s, Len(s) - Len(suffix) + 1, Len(s)) = suffix

startswith(s, prefix) ==
    /\ Len(s) >= Len(prefix)
    /\ SubSeq(s, 1, Len(prefix)) = prefix

RECURSIVE split(_, _)
split(s, sep) ==
    IF \A i \in 1..Len(s) : s[i] # sep
    THEN <<s>>
    ELSE LET i == CHOOSE i \in 1..Len(s) :
                      s[i] = sep /\ \A j \in 1..(i - 1) : s[j] # sep
         IN  <<SubSeq(s, 1, i - 1)>> \o split(SubSeq(s, i + 1, Len(s)), sep)

\* str.splitlines(): like split on the newline, but a trailing newline opens
\* no further line and the empty text has no line at all.
splitlines(s) ==
    IF s = <<>> THEN <<>>
    ELSE IF s[Len(s)] = "\n" THEN split(SubSeq(s, 1, Len(s) - 1), "\n")
    ELSE split(s, "\n")

\* seq[:n] and seq[n:] of Python, n possibly negative or beyond the end
slice_to(s, n) ==
    IF n >= 0 THEN SubSeq(s, 1, Min(n, Len(s)))
    ELSE SubSeq(s, 1, Max(Len(s) + n, 0))

slice_from(s, n) ==
    IF n >= 0 THEN SubSeq(s, Min(n, Len(s)) + 1, Len(s))
    ELSE SubSeq(s, Max(Len(s) + n, 0) + 1, Len(s))

\* zip(a, b): pairs up to the shorter of the two
zip(a, b) == [i \in 1..Min(Len(a), Len(b)) |-> <<a[i], b[i]>>]

-----------------------------------------------------------------------------
(* Values *)

IntV(n)  == [t |-> "int", v |-> n]
BoolV(b) == [t |-> "bool", v |-> b]
NoneV    == [t |-> "None"]
StrV(s)  == [t |-> "str", v |-> s]
ListV(s) == [t |-> "list", v |-> s]
DictV(a) == [t |-> "dict", v |-> a]
NodeV(n) == [t |-> "node", v |-> n]
EnumV(m) == [t |-> "BodyResult", v |-> m]

CONTINUE == EnumV("CONTINUE")
BREAK    == EnumV("BREAK")

\* bool(v) of Python
truthy(h, val) ==
    CASE val.t = "int"  -> val.v # 0
      [] val.t = "bool" -> val.v
      [] val.t = "None" -> FALSE
      [] val.t = "str"  -> val.v # <<>>
      [] val.t = "list" -> val.v # <<>>
      [] val.t = "dict" -> DOMAIN h[val.v] # {}
      [] OTHER          -> TRUE

\* the number a bool or an int stands for in arithmetic
num(val) == IF val.t = "bool" THEN (IF val.v THEN 1 ELSE 0) ELSE val.v
isnum(val) == val.t \in {"int", "bool"}

-----------------------------------------------------------------------------
(* Outcomes *)

NoExc == [exc |-> "none"]

Ok(st, val)    == [st |-> st, val |-> val, exc |-> NoExc]
Raise(st, e)   == [st |-> st, val |-> NoneV, exc |-> e]
Failed(r)      == r.exc # NoExc

IndexError  == [exc |-> "IndexError"]
TypeError   == [exc |-> "TypeError"]
KeyError(k) == [exc |-> "KeyError", key |-> k]

Log(st, e) == [st EXCEPT !.trace = Append(@, e)]

-----------------------------------------------------------------------------
(* The AST (the node classes the visitors of runtime.py expect) *)

NoNode == [kind |-> "NoneType"]

Comment(l, i, text) ==
    [kind |-> "Comment", lineno |-> l, index |-> i, text |-> text]
Constant(l, i, value) ==
    [kind |-> "Constant", lineno |-> l, index |-> i, value |-> value]
Variable(l, i, name) ==
    [kind |-> "Variable", lineno |-> l, index |-> i, name |-> name]
Assign(l, i, var, value) ==
    [kind |-> "Assign", lineno |-> l, index |-> i, var |-> var, value |-> value]
Function(l, i, name, args, body) ==
    [kind |-> "Function", lineno |-> l, index |-> i, name |-> name,
     args |-> args, body |-> body]
Call(l, i, name, args) ==
    [kind |-> "Call", lineno |-> l, index |-> i, name |-> name, args |-> args]
FunctionReturn(l, i, expr) ==
    [kind |-> "FunctionReturn", lineno |-> l, index |-> i, expr |-> expr]
UnaryOp(l, i, op, right) ==
    [kind |-> "UnaryOp", lineno |-> l, index |-> i, op |-> op, right |-> right]
BinaryOp(l, i, op, left, right) ==
    [kind |-> "BinaryOp", lineno |-> l, index |-> i, op |-> op,
     left |-> left, right |-> right]
Body(l, i, decls) ==
    [kind |-> "Body", lineno |-> l, index |-> i, decls |-> decls]
Struct(l, i, name, args, inherits) ==
    [kind |-> "Struct", lineno |-> l, index |-> i, name |-> name,
     args |-> args, inherits |-> inherits]
Array(l, i, exprs) ==
    [kind |-> "Array", lineno |-> l, index |-> i, exprs |-> exprs]
Index(l, i, target, by) ==
    [kind |-> "Index", lineno |-> l, index |-> i, target |-> target, by |-> by]
Conditional(l, i, cond, body, orelse) ==
    [kind |-> "Conditional", lineno |-> l, index |-> i, cond |-> cond,
     body |-> body, orelse |-> orelse]
Loop(l, i, cond, body, preloop, postloop) ==
    [kind |-> "Loop", lineno |-> l, index |-> i, cond |-> cond, body |-> body,
     preloop |-> preloop, postloop |-> postloop]
ForInLoop(l, i, var, expr, body) ==
    [kind |-> "ForInLoop", lineno |-> l, index |-> i, var |-> var,
     expr |-> expr, body |-> body]
Import(l, i, module) ==
    [kind |-> "Import", lineno |-> l, index |-> i, module |-> module]

\* the declarations a Body holds as plain strings
Keyword(word) == [kind |-> "str", value |-> word]

\* a host callable stored as the body of a registered Function
Native(fn) == [kind |-> "builtin", fn |-> fn]

-----------------------------------------------------------------------------
(* Subscripts: v[k] and d[k] = v of Python *)

valid_index(s, i) == -Len(s) <= i /\ i < Len(s)
item(s, i) == IF i >= 0 THEN s[i + 1] ELSE s[Len(s) + i + 1]

getitem(h, v, k) ==
    CASE v.t = "dict" ->
            IF k.t \in {"list", "dict"} THEN [val |-> NoneV, exc |-> TypeError]
            ELSE IF k.t = "str" /\ k.v \in DOMAIN h[v.v]
                 THEN [val |-> h[v.v][k.v], exc |-> NoExc]
                 ELSE [val |-> NoneV, exc |-> KeyError(k)]
      [] v.t = "list" ->
            IF ~isnum(k) THEN [val |-> NoneV, exc |-> TypeError]
            ELSE IF valid_index(v.v, num(k))
                 THEN [val |-> item(v.v, num(k)), exc |-> NoExc]
                 ELSE [val |-> NoneV, exc |-> IndexError]
      [] v.t = "str" ->
            IF ~isnum(k) THEN [val |-> NoneV, exc |-> TypeError]
            ELSE IF valid_index(v.v, num(k))
                 THEN [val |-> StrV(<<item(v.v, num(k))>>), exc |-> NoExc]
                 ELSE [val |-> NoneV, exc |-> IndexError]
      [] OTHER -> [val |-> NoneV, exc |-> TypeError]

\* d[k] = v for a str key k; only a dict takes it
setitem(h, d, k, v) ==
    IF d.t = "dict"
    THEN [heap |-> [h EXCEPT ![d.v] = (k :> v) @@ @], exc |-> NoExc]
    ELSE [heap |-> h, exc |-> TypeError]

RECURSIVE _deep_get(_, _, _)
_deep_get(h, d, ks) ==
    IF ks = <<>> THEN [val |-> d, exc |-> NoExc]
    ELSE LET r == getitem(h, d, Head(ks))
         IN  IF r.exc # NoExc THEN r ELSE _deep_get(h, r.val, Tail(ks))

_deep_set(h, d, ks, v) ==
    LET r == _deep_get(h, d, [i \in 1..(Len(ks) - 1) |-> StrV(ks[i])])
    IN  IF r.exc # NoExc THEN [heap |-> h, exc |-> r.exc]
        ELSE setitem(h, r.val, ks[Len(ks)], v)

-----------------------------------------------------------------------------
(* Diagnostics *)

RECURSIVE total_len(_)
total_len(lines) ==
    IF lines = <<>> THEN 0 ELSE len(Head(lines)) + total_len(Tail(lines))

_index(c, lineno, index) ==
    LET lines == slice_to(c, lineno)
        total == total_len(lines)
    IN  index - total - Len(lines)

error(st, node, msg) ==
    LET lineno == node.lineno - 1
        index  == _index(st.code, lineno, node.index)
    IN  IF ~valid_index(st.code, lineno) THEN Raise(st, IndexError)
        ELSE LET code_line == item(st.code, lineno)
             IN  Raise(st, [exc     |-> "RuntimeError",
                            context |-> "<runtime>",
                            line    |-> lineno,
                            pos     |-> index,
                            message |-> msg,
                            code    |-> code_line,
                            indent  |-> Max(index, 0),
                            arrows  |-> Max(len(code_line) - index, 0)])

UndefinedVariable(name) == [msg |-> "undefined variable: ", name |-> name]
NotCallable(name) == [msg |-> "can't call : not a function or struct", name |-> name]
ArityMismatch(name, expected, got) ==
    [msg |-> "function or struct expected args, got", name |-> name,
     expected |-> expected, got |-> got]
LibraryNotFound(module) == [msg |-> "library not found: ", module |-> module]
NotIterable == [msg |-> "can't iterate: not a string or list"]

-----------------------------------------------------------------------------
(* Operators (operator.add, operator.le, ... of the host) *)

BINOP_MAP ==
    [op \in {"+", "-", "*", "/", "^", "==", "!=", "<", "<=", ">", ">=", "&&", "||"} |->
        CASE op = "+"  -> "add"
          [] op = "-"  -> "sub"
          [] op = "*"  -> "mul"
          [] op = "/"  -> "truediv"
          [] op = "^"  -> "pow"
          [] op = "==" -> "eq"
          [] op = "!=" -> "ne"
          [] op = "<"  -> "lt"
          [] op = "<=" -> "le"
          [] op = ">"  -> "gt"
          [] op = ">=" -> "ge"
          [] op = "&&" -> "and_"
          [] op = "||" -> "or_"]

UNOP_MAP == [op \in {"-", "!"} |-> IF op = "-" THEN "neg" ELSE "not_"]

\* an operation of the host this model does not follow (floats)
Unmodelled == [exc |-> "Unmodelled"]

RECURSIVE power(_, _)
power(b, e) == IF e = 0 THEN 1 ELSE b * power(b, e - 1)

\* a == b of Python: numbers by value, everything else by structure
py_eq(a, b) == IF isnum(a) /\ isnum(b) THEN num(a) = num(b) ELSE a = b

operator(name, a, b) ==
    LET val(x) == [val |-> x, exc |-> NoExc]
        fail(e) == [val |-> NoneV, exc |-> e]
        both == isnum(a) /\ isnum(b)
        same(t) == a.t = t /\ b.t = t
    IN  CASE name = "add" ->
                IF both THEN val(IntV(num(a) + num(b)))
                ELSE IF same("str") THEN val(StrV(a.v \o b.v))
                ELSE IF same("list") THEN val(ListV(a.v \o b.v))
                ELSE fail(TypeError)
          [] name = "sub" ->
                IF both THEN val(IntV(num(a) - num(b))) ELSE fail(TypeError)
          [] name = "mul" ->
                IF both THEN val(IntV(num(a) * num(b))) ELSE fail(Unmodelled)
          [] name = "truediv" ->
                IF ~both THEN fail(TypeError)
                ELSE IF num(b) = 0 THEN fail([exc |-> "ZeroDivisionError"])
                ELSE fail(Unmodelled)
          [] name = "pow" ->
                IF both /\ num(b) >= 0 THEN val(IntV(power(num(a), num(b))))
                ELSE fail(Unmodelled)
          [] name = "eq" -> val(BoolV(py_eq(a, b)))
          [] name = "ne" -> val(BoolV(~py_eq(a, b)))
          [] name \in {"lt", "le", "gt", "ge"} ->
                IF both
                THEN val(BoolV(CASE name = "lt" -> num(a) < num(b)
                                 [] name = "le" -> num(a) <= num(b)
                                 [] name = "gt" -> num(a) > num(b)
                                 [] name = "ge" -> num(a) >= num(b)))
                ELSE IF same("str") \/ same("list") THEN fail(Unmodelled)
                ELSE fail(TypeError)
          [] name = "and_" ->
                IF same("bool") THEN val(BoolV(a.v /\ b.v))
                ELSE IF both THEN fail(Unmodelled)
                ELSE fail(TypeError)
          [] name = "or_" ->
                IF same("bool") THEN val(BoolV(a.v \/ b.v))
                ELSE IF both THEN fail(Unmodelled)
                ELSE fail(TypeError)

unary_operator(name, h, a) ==
    CASE name = "neg" ->
            IF isnum(a) THEN [val |-> IntV(0 - num(a)), exc |-> NoExc]
            ELSE [val |-> NoneV, exc |-> TypeError]
      [] name = "not_" -> [val |-> BoolV(~truthy(h, a)), exc |-> NoExc]

-----------------------------------------------------------------------------
(* Host functions and the library files *)

\* functools.partial(print, end="") and print: one write to standard output
call_builtin(fn, args, st) ==
    Ok([st EXCEPT !.out = Append(@, [values |-> args,
                                     end |-> IF fn = "print" THEN "" ELSE "\n"])],
       NoneV)

-----------------------------------------------------------------------------
(* The expression grammar of Parser and the way its generated tables settle
   a shift/reduce conflict *)

Token(type, value, lineno, index) ==
    [type |-> type, value |-> value, lineno |-> lineno, index |-> index]

\* Parser.precedence, lowest level first
precedence ==
    <<[assoc |-> "left", tokens |-> {"OR"}],
      [assoc |-> "left", tokens |-> {"AND"}],
      [assoc |-> "left", tokens |-> {"NOT"}],
      [assoc |-> "left", tokens |-> {"EQ", "LE", "LT", "GT", "GE", "NE"}],
      [assoc |-> "left", tokens |-> {"PLUS", "MINUS"}],
      [assoc |-> "left", tokens |-> {"TIMES", "DIVIDE"}],
      [assoc |-> "left", tokens |-> {"POWER"}]>>

\* Parser.arith
arith == {"PLUS", "MINUS", "TIMES", "DIVIDE", "POWER"}

\* the terminals of the expressions parsed below
Terminals == arith \cup {"NUMBER", "ID", "ASSIGN", "LPAREN", "RPAREN"}

NoPrecedence == [assoc |-> "right", level |-> 0]

\* the level of a terminal in Parser.precedence; a terminal the table does
\* not list has none
token_precedence(type) ==
    IF \E i \in DOMAIN precedence : type \in precedence[i].tokens
    THEN LET i == CHOOSE i \in DOMAIN precedence : type \in precedence[i].tokens
         IN  [assoc |-> precedence[i].assoc, level |-> i]
    ELSE NoPrecedence

\* the precedence of a production is that of its rightmost terminal
RECURSIVE production_precedence(_)
production_precedence(symbols) ==
    IF symbols = <<>> THEN NoPrecedence
    ELSE IF symbols[Len(symbols)] \in Terminals
         THEN token_precedence(symbols[Len(symbols)])
         ELSE production_precedence(SubSeq(symbols, 1, Len(symbols) - 1))

\* with the production complete on the stack and the terminal next in the
\* input, the tables reduce when the terminal binds less tightly than the
\* production, or as tightly and the production associates to the left;
\* otherwise they shift
reduces(symbols, type) ==
    LET r == production_precedence(symbols)
        s == token_precedence(type)
    IN  s.level < r.level \/ (s.level = r.level /\ r.assoc = "left")

\* the production of Parser.expr that builds a BinaryOp
expr_arith_expr == <<"expr", "arith", "expr">>

Symbol(sym, value) == [sym |-> sym, value |-> value]

SyntaxError == [kind |-> "syntax error"]

\* the parse of an expression over numbers: the symbols on the stack and the
\* tokens left; an ID next in the input starts the next statement
RECURSIVE parse_expr(_, _)
parse_expr(stack, tokens) ==
    LET n == Len(stack)
        look == IF tokens = <<>> THEN "$end" ELSE Head(tokens).type
        syms == [i \in 1..n |-> stack[i].sym]
        ends(with) == n >= Len(with) /\ SubSeq(syms, n - Len(with) + 1, n) = with
        replace(k, s) == Append(SubSeq(stack, 1, n - k), s)
    IN  IF ends(expr_arith_expr) /\ (look \notin arith \/ reduces(expr_arith_expr, look))
        THEN \* expr : expr arith expr
             parse_expr(replace(3, Symbol("expr",
                            BinaryOp(0, 0, stack[n - 1].value,
                                     stack[n - 2].value, stack[n].value))),
                        tokens)
        ELSE IF ends(<<"LPAREN", "expr", "RPAREN">>)
        THEN \* expr : LPAREN expr RPAREN
             parse_expr(replace(3, stack[n - 1]), tokens)
        ELSE IF look \in {"$end", "ID"}
        THEN IF syms = <<"expr">>
             THEN [value |-> stack[1].value, rest |-> tokens]
             ELSE SyntaxError
        ELSE IF look = "NUMBER" /\ ~ends(<<"expr">>) /\ ~ends(<<"RPAREN">>)
        THEN \* expr : NUMBER
             parse_expr(Append(stack, Symbol("expr",
                            Constant(Head(tokens).lineno, Head(tokens).index,
                                     IntV(Head(tokens).value)))),
                        Tail(tokens))
        ELSE IF look \in arith /\ ends(<<"expr">>)
        THEN \* arith : PLUS | MINUS | TIMES | DIVIDE | POWER
             parse_expr(Append(stack, Symbol("arith", Head(tokens).value)), Tail(tokens))
        ELSE IF look = "LPAREN" /\ ~ends(<<"expr">>) /\ ~ends(<<"RPAREN">>)
        THEN parse_expr(Append(stack, Symbol("LPAREN", "(")), Tail(tokens))
        ELSE IF look = "RPAREN" /\ ends(<<"LPAREN", "expr">>)
        THEN parse_expr(Append(stack, Symbol("RPAREN", ")")), Tail(tokens))
        ELSE SyntaxError

RECURSIVE statements(_)

\* Parser.statement and Parser.id: `ID = expr` with its expression parsed,
\* before the statements parsed from the rest
statement(tokens, e, rest) ==
    IF ~rest.ok THEN [ok |-> FALSE]
    ELSE [ok |-> TRUE,
          decls |-> <<Assign(tokens[2].lineno, tokens[2].index,
                             Variable(tokens[1].lineno, tokens[1].index,
                                      <<tokens[1].value>>),
                             e.value)>> \o rest.decls]

statement_after(tokens, e) ==
    IF e = SyntaxError THEN [ok |-> FALSE]
    ELSE statement(tokens, e, statements(e.rest))

\* Parser.body: the statements `ID = expr` of a body
statements(tokens) ==
    IF tokens = <<>> THEN [ok |-> TRUE, decls |-> <<>>]
    ELSE IF Len(tokens) < 3 \/ tokens[1].type # "ID" \/ tokens[2].type # "ASSIGN"
    THEN [ok |-> FALSE]
    ELSE statement_after(tokens, parse_expr(<<>>, SubSeq(tokens, 3, Len(tokens))))

body(tokens, parsed) ==
    IF ~parsed.ok THEN SyntaxError
    ELSE Body(IF tokens = <<>> THEN 0 ELSE tokens[1].lineno,
              IF tokens = <<>> THEN 0 ELSE tokens[1].index,
              parsed.decls)

\* Parser.parse: the body, or the syntax error the parse stops with
parse(tokens) == body(tokens, statements(tokens))

\* Parser.parse_text of a text whose tokens are the given ones
Parsed(text, tokens) == [text |-> text, tree |-> parse(tokens)]

-----------------------------------------------------------------------------
(* Parser.cond: the nodes of a conditional are objects; orelse holds a
   reference to one of them *)

\* the productions of Parser._cond with the values of their symbols
IF_(index, expr, body_) ==
    [symbols |-> <<"IF", "expr", "LBRACE", "body", "RBRACE">>,
     lineno |-> 1, index |-> index, expr |-> expr, body |-> body_]

ELSE_IF(index, expr, body_) ==
    [symbols |-> <<"ELSE", "IF", "expr", "LBRACE", "body", "RBRACE">>,
     lineno |-> 1, index |-> index, expr |-> expr, body |-> body_]

ELSE_(index, body_) ==
    [symbols |-> <<"ELSE", "LBRACE", "body", "RBRACE">>,
     lineno |-> 1, index |-> index, body |-> body_]

\* Parser._cond
_cond(p) ==
    IF Len(p.symbols) > 4
    THEN Conditional(p.lineno, p.index, p.expr, p.body, NoNode)
    ELSE p.body

\* a reference to the k-th object of the chain
Ref(k) == [kind |-> "ref", at |-> k]

\* prev_cond.orelse = cond
set_orelse(node, k) == [orelse |-> Ref(k)] @@ node

\* the for loop of Parser.cond from the k-th element of the chain on
RECURSIVE attach(_, _, _)
attach(chain, prev_cond, k) ==
    IF k > Len(chain) THEN chain
    ELSE attach([chain EXCEPT ![prev_cond] = set_orelse(@, k)], k, k + 1)

\* Parser.cond: the objects of the chain with their links; the root is the
\* first of them
cond(chain) == attach(chain, 1, 1)

-----------------------------------------------------------------------------
(* What the rules of Parser do to the parser itself: its pragmas and its
   stack of context names *)

\* Pragma
Pragma == [CUB |-> 0]

\* str.upper of the pragma names used below
upper == [s \in {"cub"} |-> "CUB"]

\* Parser.__init__
NewParser == [code |-> "None", pragmas |-> {}, context_stack |-> <<>>]

RETURNS_INVALID == "'returns' in function declaration is invalid."

\* Parser.error: the context named is the top of the context stack
Parser_error(p, message) ==
    [exc     |-> "ParserError",
     context |-> IF p.context_stack = <<>> THEN "<global>"
                 ELSE p.context_stack[Len(p.context_stack)],
     message |-> message]

Parsing(p, rest) == [p |-> p, rest |-> rest, exc |-> NoExc]
Stopped(p, e)    == [p |-> p, rest |-> <<>>, exc |-> e]

\* Parser.id: the names of `ID { DOT ID }` at the head of the tokens
RECURSIVE id(_)
id(tokens) ==
    IF Len(tokens) >= 3 /\ tokens[2].type = "DOT" /\ tokens[3].type = "ID"
    THEN <<tokens[1].value>> \o id(SubSeq(tokens, 3, Len(tokens)))
    ELSE <<tokens[1].value>>

\* Parser.import_single
Parser_import_single(p, module, rest) ==
    IF module[1] # "pragma" THEN Parsing(p, rest)
    ELSE IF Len(module) < 2 THEN Stopped(p, IndexError)
    ELSE IF module[2] \notin DOMAIN upper \/ upper[module[2]] \notin DOMAIN Pragma
    THEN Stopped(p, KeyError(module[2]))
    ELSE Parsing([p EXCEPT !.pragmas = @ \cup {upper[module[2]]}], rest)

\* Parser.new_context
Parser_new_context(p, keyword, name) ==
    [p EXCEPT !.context_stack = Append(@, <<keyword, " '", name, "'">>)]

\* Parser.func, once the body is parsed
Parser_func(r, returns) ==
    IF r.exc # NoExc THEN r
    ELSE IF r.rest = <<>> \/ Head(r.rest).type # "RBRACE"
    THEN Stopped(r.p, Parser_error(r.p, "Syntax error"))
    ELSE IF returns /\ "CUB" \notin r.p.pragmas
    THEN Stopped(r.p, Parser_error(r.p, RETURNS_INVALID))
    ELSE Parsing([r.p EXCEPT !.context_stack = SubSeq(@, 1, Len(@) - 1)], Tail(r.rest))

RECURSIVE declarations(_, _)

\* the rest of Parser.body after one declaration
declared(r) == IF r.exc # NoExc THEN r ELSE declarations(r.rest, r.p)

\* `FUNC ID new_context LPAREN RPAREN [ RETURNS ] LBRACE body RBRACE`
func_declaration(tokens, p) ==
    IF Len(tokens) < 6 \/ tokens[2].type # "ID" \/ tokens[3].type # "LPAREN"
                       \/ tokens[4].type # "RPAREN"
    THEN Stopped(p, Parser_error(p, "Syntax error"))
    ELSE IF tokens[5].type = "RETURNS" /\ tokens[6].type = "LBRACE"
    THEN Parser_func(declarations(SubSeq(tokens, 7, Len(tokens)),
                                  Parser_new_context(p, "func", tokens[2].value)),
                     TRUE)
    ELSE IF tokens[5].type = "LBRACE"
    THEN Parser_func(declarations(SubSeq(tokens, 6, Len(tokens)),
                                  Parser_new_context(p, "func", tokens[2].value)),
                     FALSE)
    ELSE Stopped(Parser_new_context(p, "func", tokens[2].value),
                 Parser_error(Parser_new_context(p, "func", tokens[2].value),
                              "Syntax error"))

\* `IMPORT id`
import_declaration(tokens, p, module) ==
    Parser_import_single(p, module, SubSeq(tokens, 2 * Len(module) + 1, Len(tokens)))

\* Parser.body and Parser.declaration: imports, functions without
\* parameters and statements `ID = NUMBER`, up to the end of the input or
\* the brace that closes the body
declarations(tokens, p) ==
    IF tokens = <<>> \/ Head(tokens).type = "RBRACE" THEN Parsing(p, tokens)
    ELSE IF Head(tokens).type = "IMPORT" /\ Len(tokens) >= 2 /\ tokens[2].type = "ID"
    THEN declared(import_declaration(tokens, p, id(Tail(tokens))))
    ELSE IF Head(tokens).type = "FUNC"
    THEN declared(func_declaration(tokens, p))
    ELSE IF Len(tokens) >= 3 /\ tokens[1].type = "ID" /\ tokens[2].type = "ASSIGN"
                             /\ tokens[3].type = "NUMBER"
    THEN declarations(SubSeq(tokens, 4, Len(tokens)), p)
    ELSE Stopped(p, Parser_error(p, "Syntax error"))

\* the end of the parse: a closing brace left over is a syntax error
parsed(r) ==
    IF r.exc = NoExc /\ r.rest # <<>> THEN Stopped(r.p, Parser_error(r.p, "Syntax error"))
    ELSE r

\* Parser.parse: the pragmas are cleared, then the tokens are parsed
Parser_parse(p, tokens) == parsed(declarations(tokens, [p EXCEPT !.pragmas = {}]))

\* a unit of source text with the tokens Lexer.tokenize gives for it
Unit(text, tokens) == [text |-> text, tokens |-> tokens]

-----------------------------------------------------------------------------
(* The state of Shell.interact *)

Brackets == {"(", ")", "[", "]", "{", "}"}

Pairs == {<<"(", ")">>, <<"[", "]">>, <<"{", "}">>}

\* the lines typed: a line is a str whose brackets are atoms of their own
Lines ==
    {<<>>, <<"x = 1">>, <<"q.x = 9">>, <<"r = ", "(">>, <<"x", ")">>,
     <<"y = ", "[">>, <<"1", "]">>}

MaxReads == 4       \* lines read by one shell
MaxLines == 3       \* lines of one unit

\* the first lines of interact: code, counter and complete before the loop
NewShell ==
    [code |-> <<>>, counter |-> [c \in Brackets |-> 0], complete |-> TRUE,
     running |-> TRUE]

-----------------------------------------------------------------------------
(* Scorpion bytecode (scorpion.py): bytes are numbers in 0 .. 255 *)

\* the arguments of an instruction.  An int n is held as hi * 2^16 + lo with
\* lo in 0 .. 2^16 - 1, a float as the four 16-bit words of its IEEE 754
\* double, most significant first.
BytesArg(s)    == [t |-> "bytes", v |-> s]
IntArg(hi, lo) == [t |-> "int", v |-> <<hi, lo>>]
FloatArg(w)    == [t |-> "float", v |-> w]
BoolArg(b)     == [t |-> "bool", v |-> b]

\* the type chars b"s", b"i", b"d" and b"?"
ARG_TYPES == [bytes |-> 115, int |-> 105, float |-> 100, bool |-> 63]

\* the members of Opcode used below
Opcode == [PUSH_CONST |-> 0, ADD |-> 1, NOT |-> 8, REG_STORE |-> 15, POP |-> 22]

Instruction(opcode, args) == [opcode |-> opcode, args |-> args, length |-> 0]

StructError == [ok |-> FALSE, exc |-> "struct.error"]

Packed(data) == [ok |-> TRUE, data |-> data]

\* struct.pack(">H", n) and struct.unpack(">H", data)
pack_H(n) == <<(n \div 256) % 256, n % 256>>

unpack_H(data) == data[1] * 256 + data[2]

\* struct.Struct(fmt).size for the formats other than b"s"
size(fmt) ==
    IF fmt = ARG_TYPES.int THEN 4 ELSE IF fmt = ARG_TYPES.float THEN 8 ELSE 1

\* struct.pack(">i", n), struct.pack(">d", x) and struct.pack(">?", b)
pack(fmt, v) ==
    IF fmt = ARG_TYPES.int
    THEN IF v[1] < -(2^15) \/ v[1] >= 2^15
         THEN StructError
         ELSE Packed(pack_H(v[1] % 2^16) \o pack_H(v[2]))
    ELSE IF fmt = ARG_TYPES.float
    THEN Packed(pack_H(v[1]) \o pack_H(v[2]) \o pack_H(v[3]) \o pack_H(v[4]))
    ELSE Packed(<<IF v THEN 1 ELSE 0>>)

\* ARG_HEADER.pack(fmt, arg_len) + arg_data
with_header(fmt, arg_len, arg_data) ==
    IF ~arg_data.ok \/ arg_len > 2^16 - 1
    THEN StructError
    ELSE Packed(<<fmt>> \o pack_H(arg_len) \o arg_data.data)

_as_bytecode(arg) ==
    IF ARG_TYPES[arg.t] = ARG_TYPES.bytes
    THEN with_header(ARG_TYPES.bytes, Len(arg.v), Packed(arg.v))
    ELSE with_header(ARG_TYPES[arg.t], size(ARG_TYPES[arg.t]),
                     pack(ARG_TYPES[arg.t], arg.v))

\* one more argument joined to the ones after it
joined(data, rest) ==
    IF ~rest.ok THEN StructError ELSE Packed(data \o rest.data)

RECURSIVE args_data(_)

then_args(first, rest) ==
    IF ~first.ok THEN StructError ELSE joined(first.data, args_data(rest))

\* b"".join(_as_bytecode(arg) for arg in self.args)
args_data(args) ==
    IF args = <<>> THEN Packed(<<>>)
    ELSE then_args(_as_bytecode(args[1]), Tail(args))

\* header + args_data
after_header(header, data) ==
    IF ~data.ok THEN StructError ELSE Packed(header \o data.data)

\* Instruction.dump: the bytes, or the struct.error it raises
dump(ins) ==
    IF ins.opcode > 255 \/ Len(ins.args) > 255
    THEN StructError
    ELSE after_header(<<ins.opcode, Len(ins.args)>>, args_data(ins.args))

\* bytecode[i:j]
slice(bytecode, i, j) ==
    SubSeq(bytecode, i + 1, IF j < Len(bytecode) THEN j ELSE Len(bytecode))

\* a 16-bit word read as an unsigned number
unsigned(n) == n

\* the signed number of a 16-bit word in two's complement
signed(n) == IF n >= 2^15 THEN n - 2^16 ELSE n

\* struct.unpack(fmt, arg_data)[0]
unpack(arg_type, arg_len, arg_data) ==
    IF arg_type = ARG_TYPES.bytes
    THEN IF Len(arg_data) = arg_len THEN [ok |-> TRUE, arg |-> BytesArg(arg_data)]
         ELSE StructError
    ELSE IF arg_type \notin {ARG_TYPES.int, ARG_TYPES.float, ARG_TYPES.bool}
            \/ Len(arg_data) # size(arg_type)
    THEN StructError
    ELSE IF arg_type = ARG_TYPES.int
    THEN [ok |-> TRUE,
          arg |-> IntArg(signed(unpack_H(SubSeq(arg_data, 1, 2))),
                         unpack_H(SubSeq(arg_data, 3, 4)))]
    ELSE IF arg_type = ARG_TYPES.float
    THEN [ok |-> TRUE,
          arg |-> FloatArg([k \in 1..4 |-> unpack_H(SubSeq(arg_data, 2 * k - 1, 2 * k))])]
    ELSE [ok |-> TRUE, arg |-> BoolArg(arg_data[1] # 0)]

RECURSIVE load_args(_, _, _, _)

\* args.append(arg), h_start = h_end + arg_len, nargs -= 1
next_arg(bytecode, h_start, nargs, args, arg) ==
    IF ~arg.ok THEN StructError
    ELSE load_args(bytecode, h_start, nargs - 1, Append(args, arg.arg))

\* one round of the loop once the argument header is unpacked
load_arg(bytecode, h_end, nargs, args, arg_type, arg_len) ==
    next_arg(bytecode, h_end + arg_len, nargs, args,
             unpack(arg_type, arg_len, slice(bytecode, h_end, h_end + arg_len)))

\* the while loop of Instruction.load
load_args(bytecode, h_start, nargs, args) ==
    IF nargs = 0 THEN [ok |-> TRUE, args |-> args, length |-> h_start]
    ELSE IF Len(slice(bytecode, h_start, h_start + 3)) # 3 THEN StructError
    ELSE load_arg(bytecode, h_start + 3, nargs, args,
                  bytecode[h_start + 1],
                  unpack_H(slice(bytecode, h_start + 1, h_start + 3)))

\* cls(opcode, args, h_start)
with_opcode(opcode, r) ==
    IF ~r.ok THEN StructError
    ELSE [ok |-> TRUE, opcode |-> opcode, args |-> r.args, length |-> r.length]

\* Instruction.load: opcode, args and the end offset, or the struct.error
load(bytecode, offset) ==
    IF Len(slice(bytecode, offset, offset + 2)) # 2 THEN StructError
    ELSE with_opcode(bytecode[offset + 1],
                     load_args(bytecode, offset + 2, bytecode[offset + 2], <<>>))

\* no instruction dumped and none loaded
NewStream == [bytecode |-> <<>>, dumped |-> <<>>, loaded |-> <<>>, offset |-> 0]

-----------------------------------------------------------------------------
(* The source texts executed below, each with the tree it parses to *)

\* 
\* lol = 1 + 1
\* 
\* struct Point {
\*     x, y
\* }
\* 
\* p = Point(1, 2)
\* p.x = 9
sample ==
    [text |-> <<"\n", "lol = 1 + 1", "\n", "\n", "struct Point {", "\n", "    x, y", "\n",
              "}", "\n", "\n", "p = Point(1, 2)", "\n", "p.x = 9", "\n">>,
     tree |-> Body(2, 1, <<Assign(2, 1, Variable(2, 1, <<"lol">>), BinaryOp(2, 7, "+",
         Constant(2, 7, IntV(1)), Constant(2, 11, IntV(1)))), Struct(4, 14,
         <<"Point">>, <<<<"x">>, <<"y">>>>, <<>>), Assign(8, 41, Variable(8,
         41, <<"p">>), Call(8, 45, <<"Point">>, <<Constant(8, 51, IntV(1)),
         Constant(8, 54, IntV(2))>>)), Assign(9, 57, Variable(9, 57, <<"p",
         ".", "x">>), Constant(9, 63, IntV(9)))>>)]

\* struct Point { x, y }
\* p = Point(1, 2)
prog_point ==
    [text |-> <<"struct Point { x, y }", "\n", "p = Point(1, 2)", "\n">>,
     tree |-> Body(1, 0, <<Struct(1, 0, <<"Point">>, <<<<"x">>, <<"y">>>>, <<>>),
         Assign(2, 22, Variable(2, 22, <<"p">>), Call(2, 26, <<"Point">>,
         <<Constant(2, 32, IntV(1)), Constant(2, 35, IntV(2))>>))>>)]

\* p.x = 9
prog_setx ==
    [text |-> <<"p.x = 9", "\n">>,
     tree |-> Body(1, 0, <<Assign(1, 0, Variable(1, 0, <<"p", ".", "x">>), Constant(1, 6,
         IntV(9)))>>)]

\* q = p
\* q.y = 5
prog_alias ==
    [text |-> <<"q = p", "\n", "q.y = 5", "\n">>,
     tree |-> Body(1, 0, <<Assign(1, 0, Variable(1, 0, <<"q">>), Variable(1, 4, <<"p">>)),
         Assign(2, 6, Variable(2, 6, <<"q", ".", "y">>), Constant(2, 12,
         IntV(5)))>>)]

\* struct T { a, b, c }
\* t = T(3, 2, 1)
prog_triple ==
    [text |-> <<"struct T { a, b, c }", "\n", "t = T(3, 2, 1)", "\n">>,
     tree |-> Body(1, 0, <<Struct(1, 0, <<"T">>, <<<<"a">>, <<"b">>, <<"c">>>>, <<>>),
         Assign(2, 21, Variable(2, 21, <<"t">>), Call(2, 25, <<"T">>,
         <<Constant(2, 27, IntV(3)), Constant(2, 30, IntV(2)), Constant(2,
         33, IntV(1))>>))>>)]

\* struct V { x, y... }
\* v = V(1, 2)
prog_variadic_struct ==
    [text |-> <<"struct V { x, y... }", "\n", "v = V(1, 2)", "\n">>,
     tree |-> Body(1, 0, <<Struct(1, 0, <<"V">>, <<<<"x">>, <<"y", ".", ".", ".">>>>,
         <<>>), Assign(2, 21, Variable(2, 21, <<"v">>), Call(2, 25, <<"V">>,
         <<Constant(2, 27, IntV(1)), Constant(2, 30, IntV(2))>>))>>)]

\* func f(a, b) {
\*     println(a)
\*     return a + b
\* }
\* r = f(1, 2)
prog_arity_ok ==
    [text |-> <<"func f(a, b) {", "\n", "    println(a)", "\n", "    return a + b", "\n",
              "}", "\n", "r = f(1, 2)", "\n">>,
     tree |-> Body(1, 0, <<Function(1, 0, <<"f">>, <<<<"a">>, <<"b">>>>, Body(2, 19,
         <<Call(2, 19, <<"println">>, <<Variable(2, 27, <<"a">>)>>),
         FunctionReturn(3, 34, BinaryOp(3, 41, "+", Variable(3, 41,
         <<"a">>), Variable(3, 45, <<"b">>)))>>)), Assign(5, 49, Variable(5,
         49, <<"r">>), Call(5, 53, <<"f">>, <<Constant(5, 55, IntV(1)),
         Constant(5, 58, IntV(2))>>))>>)]

\* func f(a, b) {
\*     println(a)
\*     return a + b
\* }
\* r = f(1)
prog_arity_few ==
    [text |-> <<"func f(a, b) {", "\n", "    println(a)", "\n", "    return a + b", "\n",
              "}", "\n", "r = f(1)", "\n">>,
     tree |-> Body(1, 0, <<Function(1, 0, <<"f">>, <<<<"a">>, <<"b">>>>, Body(2, 19,
         <<Call(2, 19, <<"println">>, <<Variable(2, 27, <<"a">>)>>),
         FunctionReturn(3, 34, BinaryOp(3, 41, "+", Variable(3, 41,
         <<"a">>), Variable(3, 45, <<"b">>)))>>)), Assign(5, 49, Variable(5,
         49, <<"r">>), Call(5, 53, <<"f">>, <<Constant(5, 55,
         IntV(1))>>))>>)]

\* func f(a, b) {
\*     println(a)
\*     return a + b
\* }
\* r = f(1, 2, 3)
prog_arity_many ==
    [text |-> <<"func f(a, b) {", "\n", "    println(a)", "\n", "    return a + b", "\n",
              "}", "\n", "r = f(1, 2, 3)", "\n">>,
     tree |-> Body(1, 0, <<Function(1, 0, <<"f">>, <<<<"a">>, <<"b">>>>, Body(2, 19,
         <<Call(2, 19, <<"println">>, <<Variable(2, 27, <<"a">>)>>),
         FunctionReturn(3, 34, BinaryOp(3, 41, "+", Variable(3, 41,
         <<"a">>), Variable(3, 45, <<"b">>)))>>)), Assign(5, 49, Variable(5,
         49, <<"r">>), Call(5, 53, <<"f">>, <<Constant(5, 55, IntV(1)),
         Constant(5, 58, IntV(2)), Constant(5, 61, IntV(3))>>))>>)]

\* struct Point { x, y }
\* p = Point(1)
prog_arity_struct ==
    [text |-> <<"struct Point { x, y }", "\n", "p = Point(1)", "\n">>,
     tree |-> Body(1, 0, <<Struct(1, 0, <<"Point">>, <<<<"x">>, <<"y">>>>, <<>>),
         Assign(2, 22, Variable(2, 22, <<"p">>), Call(2, 26, <<"Point">>,
         <<Constant(2, 32, IntV(1))>>))>>)]

\* func z() {
\*     println(0)
\*     return 7
\* }
\* r = z()
prog_noargs ==
    [text |-> <<"func z() {", "\n", "    println(0)", "\n", "    return 7", "\n", "}",
              "\n", "r = z()", "\n">>,
     tree |-> Body(1, 0, <<Function(1, 0, <<"z">>, <<>>, Body(2, 15, <<Call(2, 15,
         <<"println">>, <<Constant(2, 23, IntV(0))>>), FunctionReturn(3, 30,
         Constant(3, 37, IntV(7)))>>)), Assign(5, 41, Variable(5, 41,
         <<"r">>), Call(5, 45, <<"z">>, <<>>))>>)]

\* func z() {
\*     println(0)
\*     return 7
\* }
\* r = z(1)
prog_noargs_extra ==
    [text |-> <<"func z() {", "\n", "    println(0)", "\n", "    return 7", "\n", "}",
              "\n", "r = z(1)", "\n">>,
     tree |-> Body(1, 0, <<Function(1, 0, <<"z">>, <<>>, Body(2, 15, <<Call(2, 15,
         <<"println">>, <<Constant(2, 23, IntV(0))>>), FunctionReturn(3, 30,
         Constant(3, 37, IntV(7)))>>)), Assign(5, 41, Variable(5, 41,
         <<"r">>), Call(5, 45, <<"z">>, <<Constant(5, 47, IntV(1))>>))>>)]

\* func g(a, b...) {
\*     return b
\* }
\* r = g(1, 2, 3)
prog_varargs ==
    [text |-> <<"func g(a, b...) {", "\n", "    return b", "\n", "}", "\n",
              "r = g(1, 2, 3)", "\n">>,
     tree |-> Body(1, 0, <<Function(1, 0, <<"g">>, <<<<"a">>, <<"b", ".", ".", ".">>>>,
         Body(2, 22, <<FunctionReturn(2, 22, Variable(2, 29, <<"b">>))>>)),
         Assign(4, 33, Variable(4, 33, <<"r">>), Call(4, 37, <<"g">>,
         <<Constant(4, 39, IntV(1)), Constant(4, 42, IntV(2)), Constant(4,
         45, IntV(3))>>))>>)]

\* func g(a, b...) {
\*     return a
\* }
\* r = g(1)
prog_varargs_one ==
    [text |-> <<"func g(a, b...) {", "\n", "    return a", "\n", "}", "\n", "r = g(1)",
              "\n">>,
     tree |-> Body(1, 0, <<Function(1, 0, <<"g">>, <<<<"a">>, <<"b", ".", ".", ".">>>>,
         Body(2, 22, <<FunctionReturn(2, 22, Variable(2, 29, <<"a">>))>>)),
         Assign(4, 33, Variable(4, 33, <<"r">>), Call(4, 37, <<"g">>,
         <<Constant(4, 39, IntV(1))>>))>>)]

\* for i = 0, i <= 0, i += 1 {
\*     println(i)
\* }
prog_for0 ==
    [text |-> <<"for i = 0, i <= 0, i += 1 {", "\n", "    println(i)", "\n", "}", "\n">>,
     tree |-> Body(1, 0, <<Loop(1, 0, BinaryOp(1, 11, "<=", Variable(1, 11, <<"i">>),
         Constant(1, 16, IntV(0))), Body(2, 32, <<Call(2, 32, <<"println">>,
         <<Variable(2, 40, <<"i">>)>>)>>), Assign(1, 4, Variable(1, 4,
         <<"i">>), Constant(1, 8, IntV(0))), Assign(1, 19, Variable(1, 19,
         <<"i">>), BinaryOp(1, 19, "+", Variable(1, 19, <<"i">>),
         Constant(1, 24, IntV(1)))))>>)]

\* for i = 0, i <= 1, i += 1 {
\*     println(i)
\* }
prog_for1 ==
    [text |-> <<"for i = 0, i <= 1, i += 1 {", "\n", "    println(i)", "\n", "}", "\n">>,
     tree |-> Body(1, 0, <<Loop(1, 0, BinaryOp(1, 11, "<=", Variable(1, 11, <<"i">>),
         Constant(1, 16, IntV(1))), Body(2, 32, <<Call(2, 32, <<"println">>,
         <<Variable(2, 40, <<"i">>)>>)>>), Assign(1, 4, Variable(1, 4,
         <<"i">>), Constant(1, 8, IntV(0))), Assign(1, 19, Variable(1, 19,
         <<"i">>), BinaryOp(1, 19, "+", Variable(1, 19, <<"i">>),
         Constant(1, 24, IntV(1)))))>>)]

\* for i = 0, i <= 2, i += 1 {
\*     println(i)
\* }
prog_for2 ==
    [text |-> <<"for i = 0, i <= 2, i += 1 {", "\n", "    println(i)", "\n", "}", "\n">>,
     tree |-> Body(1, 0, <<Loop(1, 0, BinaryOp(1, 11, "<=", Variable(1, 11, <<"i">>),
         Constant(1, 16, IntV(2))), Body(2, 32, <<Call(2, 32, <<"println">>,
         <<Variable(2, 40, <<"i">>)>>)>>), Assign(1, 4, Variable(1, 4,
         <<"i">>), Constant(1, 8, IntV(0))), Assign(1, 19, Variable(1, 19,
         <<"i">>), BinaryOp(1, 19, "+", Variable(1, 19, <<"i">>),
         Constant(1, 24, IntV(1)))))>>)]

\* for i = 0, i <= 3, i += 1 {
\*     println(i)
\* }
prog_for3 ==
    [text |-> <<"for i = 0, i <= 3, i += 1 {", "\n", "    println(i)", "\n", "}", "\n">>,
     tree |-> Body(1, 0, <<Loop(1, 0, BinaryOp(1, 11, "<=", Variable(1, 11, <<"i">>),
         Constant(1, 16, IntV(3))), Body(2, 32, <<Call(2, 32, <<"println">>,
         <<Variable(2, 40, <<"i">>)>>)>>), Assign(1, 4, Variable(1, 4,
         <<"i">>), Constant(1, 8, IntV(0))), Assign(1, 19, Variable(1, 19,
         <<"i">>), BinaryOp(1, 19, "+", Variable(1, 19, <<"i">>),
         Constant(1, 24, IntV(1)))))>>)]

\* for i = 0, i <= 2, i += 1 {
\*     println(i)
\*     continue
\*     println(9)
\* }
prog_for_continue ==
    [text |-> <<"for i = 0, i <= 2, i += 1 {", "\n", "    println(i)", "\n",
              "    continue", "\n", "    println(9)", "\n", "}", "\n">>,
     tree |-> Body(1, 0, <<Loop(1, 0, BinaryOp(1, 11, "<=", Variable(1, 11, <<"i">>),
         Constant(1, 16, IntV(2))), Body(2, 32, <<Call(2, 32, <<"println">>,
         <<Variable(2, 40, <<"i">>)>>), Keyword("continue"), Call(4, 60,
         <<"println">>, <<Constant(4, 68, IntV(9))>>)>>), Assign(1, 4,
         Variable(1, 4, <<"i">>), Constant(1, 8, IntV(0))), Assign(1, 19,
         Variable(1, 19, <<"i">>), BinaryOp(1, 19, "+", Variable(1, 19,
         <<"i">>), Constant(1, 24, IntV(1)))))>>)]

\* for i = 0, i <= 3, i += 1 {
\*     println(i)
\*     break
\* }
prog_for_break ==
    [text |-> <<"for i = 0, i <= 3, i += 1 {", "\n", "    println(i)", "\n", "    break",
              "\n", "}", "\n">>,
     tree |-> Body(1, 0, <<Loop(1, 0, BinaryOp(1, 11, "<=", Variable(1, 11, <<"i">>),
         Constant(1, 16, IntV(3))), Body(2, 32, <<Call(2, 32, <<"println">>,
         <<Variable(2, 40, <<"i">>)>>), Keyword("break")>>), Assign(1, 4,
         Variable(1, 4, <<"i">>), Constant(1, 8, IntV(0))), Assign(1, 19,
         Variable(1, 19, <<"i">>), BinaryOp(1, 19, "+", Variable(1, 19,
         <<"i">>), Constant(1, 24, IntV(1)))))>>)]

\* i = 0
\* while i < 3 {
\*     i += 1
\*     println(i)
\*     break
\* }
prog_while_break ==
    [text |-> <<"i = 0", "\n", "while i < 3 {", "\n", "    i += 1", "\n",
              "    println(i)", "\n", "    break", "\n", "}", "\n">>,
     tree |-> Body(1, 0, <<Assign(1, 0, Variable(1, 0, <<"i">>), Constant(1, 4, IntV(0))),
         Loop(2, 6, BinaryOp(2, 12, "<", Variable(2, 12, <<"i">>),
         Constant(2, 16, IntV(3))), Body(3, 24, <<Assign(3, 24, Variable(3,
         24, <<"i">>), BinaryOp(3, 24, "+", Variable(3, 24, <<"i">>),
         Constant(3, 29, IntV(1)))), Call(4, 35, <<"println">>,
         <<Variable(4, 43, <<"i">>)>>), Keyword("break")>>), NoNode,
         NoNode)>>)]

\* for i = 0, i <= 3, i += 1 {
\*     println(i)
\*     if i == 1 {
\*         break
\*     }
\* }
prog_if_break ==
    [text |-> <<"for i = 0, i <= 3, i += 1 {", "\n", "    println(i)", "\n",
              "    if i == 1 {", "\n", "        break", "\n", "    }", "\n",
              "}", "\n">>,
     tree |-> Body(1, 0, <<Loop(1, 0, BinaryOp(1, 11, "<=", Variable(1, 11, <<"i">>),
         Constant(1, 16, IntV(3))), Body(2, 32, <<Call(2, 32, <<"println">>,
         <<Variable(2, 40, <<"i">>)>>), Conditional(3, 47, BinaryOp(3, 50,
         "==", Variable(3, 50, <<"i">>), Constant(3, 55, IntV(1))), Body(4,
         67, <<Keyword("break")>>), NoNode)>>), Assign(1, 4, Variable(1, 4,
         <<"i">>), Constant(1, 8, IntV(0))), Assign(1, 19, Variable(1, 19,
         <<"i">>), BinaryOp(1, 19, "+", Variable(1, 19, <<"i">>),
         Constant(1, 24, IntV(1)))))>>)]

\* for i = 0, i <= 1, i += 1 {
\*     for j = 0, j <= 1, j += 1 {
\*         break
\*     }
\*     println(i)
\* }
prog_nested_break ==
    [text |-> <<"for i = 0, i <= 1, i += 1 {", "\n", "    for j = 0, j <= 1, j += 1 {",
              "\n", "        break", "\n", "    }", "\n", "    println(i)",
              "\n", "}", "\n">>,
     tree |-> Body(1, 0, <<Loop(1, 0, BinaryOp(1, 11, "<=", Variable(1, 11, <<"i">>),
         Constant(1, 16, IntV(1))), Body(2, 32, <<Loop(2, 32, BinaryOp(2,
         43, "<=", Variable(2, 43, <<"j">>), Constant(2, 48, IntV(1))),
         Body(3, 68, <<Keyword("break")>>), Assign(2, 36, Variable(2, 36,
         <<"j">>), Constant(2, 40, IntV(0))), Assign(2, 51, Variable(2, 51,
         <<"j">>), BinaryOp(2, 51, "+", Variable(2, 51, <<"j">>),
         Constant(2, 56, IntV(1))))), Call(5, 84, <<"println">>,
         <<Variable(5, 92, <<"i">>)>>)>>), Assign(1, 4, Variable(1, 4,
         <<"i">>), Constant(1, 8, IntV(0))), Assign(1, 19, Variable(1, 19,
         <<"i">>), BinaryOp(1, 19, "+", Variable(1, 19, <<"i">>),
         Constant(1, 24, IntV(1)))))>>)]

\* break
\* x = 1
prog_top_break ==
    [text |-> <<"break", "\n", "x = 1", "\n">>,
     tree |-> Body(1, 0, <<Keyword("break"), Assign(2, 6, Variable(2, 6, <<"x">>),
         Constant(2, 10, IntV(1)))>>)]

\* continue
\* x = 1
prog_top_continue ==
    [text |-> <<"continue", "\n", "x = 1", "\n">>,
     tree |-> Body(1, 0, <<Keyword("continue"), Assign(2, 9, Variable(2, 9, <<"x">>),
         Constant(2, 13, IntV(1)))>>)]

\* func h(a) {
\*     break
\* }
\* r = h(1)
prog_func_break ==
    [text |-> <<"func h(a) {", "\n", "    break", "\n", "}", "\n", "r = h(1)", "\n">>,
     tree |-> Body(1, 0, <<Function(1, 0, <<"h">>, <<<<"a">>>>, Body(2, 16,
         <<Keyword("break")>>)), Assign(4, 24, Variable(4, 24, <<"r">>),
         Call(4, 28, <<"h">>, <<Constant(4, 30, IntV(1))>>))>>)]

\* for c in "ab" {
\*     println(c)
\* }
prog_forin ==
    [text |-> <<"for c in \"ab\" {", "\n", "    println(c)", "\n", "}", "\n">>,
     tree |-> Body(1, 0, <<ForInLoop(1, 0, Variable(1, 4, <<"c">>), Constant(1, 9,
         StrV(<<"a", "b">>)), Body(2, 20, <<Call(2, 20, <<"println">>,
         <<Variable(2, 28, <<"c">>)>>)>>))>>)]

\* for c in "abc" {
\*     println(c)
\*     break
\* }
prog_forin_break ==
    [text |-> <<"for c in \"abc\" {", "\n", "    println(c)", "\n", "    break", "\n",
              "}", "\n">>,
     tree |-> Body(1, 0, <<ForInLoop(1, 0, Variable(1, 4, <<"c">>), Constant(1, 9,
         StrV(<<"a", "b", "c">>)), Body(2, 21, <<Call(2, 21, <<"println">>,
         <<Variable(2, 29, <<"c">>)>>), Keyword("break")>>))>>)]

\* for c in [1, 2] {
\*     println(c)
\*     continue
\*     println(0)
\* }
prog_forin_continue ==
    [text |-> <<"for c in [1, 2] {", "\n", "    println(c)", "\n", "    continue", "\n",
              "    println(0)", "\n", "}", "\n">>,
     tree |-> Body(1, 0, <<ForInLoop(1, 0, Variable(1, 4, <<"c">>), Array(1, 9,
         <<Constant(1, 10, IntV(1)), Constant(1, 13, IntV(2))>>), Body(2,
         22, <<Call(2, 22, <<"println">>, <<Variable(2, 30, <<"c">>)>>),
         Keyword("continue"), Call(4, 50, <<"println">>, <<Constant(4, 58,
         IntV(0))>>)>>))>>)]

\* import m
\* w = who
prog_import ==
    [text |-> <<"import m", "\n", "w = who", "\n">>,
     tree |-> Body(1, 0, <<Import(1, 0, <<"m">>), Assign(2, 9, Variable(2, 9, <<"w">>),
         Variable(2, 13, <<"who">>))>>)]

\* import m
\* import m
prog_import_twice ==
    [text |-> <<"import m", "\n", "import m", "\n">>,
     tree |-> Body(1, 0, <<Import(1, 0, <<"m">>), Import(2, 9, <<"m">>)>>)]

\* import nolib
\* x = 1
prog_import_missing ==
    [text |-> <<"import nolib", "\n", "x = 1", "\n">>,
     tree |-> Body(1, 0, <<Import(1, 0, <<"nolib">>), Assign(2, 13, Variable(2, 13,
         <<"x">>), Constant(2, 17, IntV(1)))>>)]

\* import m
\* 
\* 
\* import nolib
prog_import_then_missing ==
    [text |-> <<"import m", "\n", "\n", "\n", "import nolib", "\n">>,
     tree |-> Body(1, 0, <<Import(1, 0, <<"m">>), Import(4, 11, <<"nolib">>)>>)]

\* import m
\* func f(a, b) {
\*     println(a)
\*     return a + b
\* }
\* r = f(1)
prog_import_arity ==
    [text |-> <<"import m", "\n", "func f(a, b) {", "\n", "    println(a)", "\n",
              "    return a + b", "\n", "}", "\n", "r = f(1)", "\n">>,
     tree |-> Body(1, 0, <<Import(1, 0, <<"m">>), Function(2, 9, <<"f">>, <<<<"a">>,
         <<"b">>>>, Body(3, 28, <<Call(3, 28, <<"println">>, <<Variable(3,
         36, <<"a">>)>>), FunctionReturn(4, 43, BinaryOp(4, 50, "+",
         Variable(4, 50, <<"a">>), Variable(4, 54, <<"b">>)))>>)), Assign(6,
         58, Variable(6, 58, <<"r">>), Call(6, 62, <<"f">>, <<Constant(6,
         64, IntV(1))>>))>>)]

\* import pragma.cub
prog_pragma ==
    [text |-> <<"import pragma.cub", "\n">>,
     tree |-> Body(1, 0, <<Import(1, 0, <<"pragma", ".", "cub">>)>>)]

\* x = 1
\* x = foo
\* z = 3
err_assign ==
    [text |-> <<"x = 1", "\n", "x = foo", "\n", "z = 3", "\n">>,
     tree |-> Body(1, 0, <<Assign(1, 0, Variable(1, 0, <<"x">>), Constant(1, 4, IntV(1))),
         Assign(2, 6, Variable(2, 6, <<"x">>), Variable(2, 10, <<"foo">>)),
         Assign(3, 14, Variable(3, 14, <<"z">>), Constant(3, 18,
         IntV(3)))>>)]

\* x = 1
\* q.x = 9
\* z = 3
err_key ==
    [text |-> <<"x = 1", "\n", "q.x = 9", "\n", "z = 3", "\n">>,
     tree |-> Body(1, 0, <<Assign(1, 0, Variable(1, 0, <<"x">>), Constant(1, 4, IntV(1))),
         Assign(2, 6, Variable(2, 6, <<"q", ".", "x">>), Constant(2, 12,
         IntV(9))), Assign(3, 14, Variable(3, 14, <<"z">>), Constant(3, 18,
         IntV(3)))>>)]

\* for i = 0, i <= 2, i += 1 {
\*     x = i
\*     y = foo
\* }
\* z = 3
err_loop ==
    [text |-> <<"for i = 0, i <= 2, i += 1 {", "\n", "    x = i", "\n", "    y = foo",
              "\n", "}", "\n", "z = 3", "\n">>,
     tree |-> Body(1, 0, <<Loop(1, 0, BinaryOp(1, 11, "<=", Variable(1, 11, <<"i">>),
         Constant(1, 16, IntV(2))), Body(2, 32, <<Assign(2, 32, Variable(2,
         32, <<"x">>), Variable(2, 36, <<"i">>)), Assign(3, 42, Variable(3,
         42, <<"y">>), Variable(3, 46, <<"foo">>))>>), Assign(1, 4,
         Variable(1, 4, <<"i">>), Constant(1, 8, IntV(0))), Assign(1, 19,
         Variable(1, 19, <<"i">>), BinaryOp(1, 19, "+", Variable(1, 19,
         <<"i">>), Constant(1, 24, IntV(1))))), Assign(5, 52, Variable(5,
         52, <<"z">>), Constant(5, 56, IntV(3)))>>)]

\* x = 1
err_done_x ==
    [text |-> <<"x = 1", "\n">>,
     tree |-> Body(1, 0, <<Assign(1, 0, Variable(1, 0, <<"x">>), Constant(1, 4,
         IntV(1)))>>)]

\* i = 0
\* x = i
err_done_loop ==
    [text |-> <<"i = 0", "\n", "x = i", "\n">>,
     tree |-> Body(1, 0, <<Assign(1, 0, Variable(1, 0, <<"i">>), Constant(1, 4, IntV(0))),
         Assign(2, 6, Variable(2, 6, <<"x">>), Variable(2, 10, <<"i">>))>>)]

\* x = 1
\* struct Point { x, y }
\* func f(a) {
\*     return a
\* }
sess_define ==
    [text |-> <<"x = 1", "\n", "struct Point { x, y }", "\n", "func f(a) {", "\n",
              "    return a", "\n", "}", "\n">>,
     tree |-> Body(1, 0, <<Assign(1, 0, Variable(1, 0, <<"x">>), Constant(1, 4, IntV(1))),
         Struct(2, 6, <<"Point">>, <<<<"x">>, <<"y">>>>, <<>>), Function(3,
         28, <<"f">>, <<<<"a">>>>, Body(4, 44, <<FunctionReturn(4, 44,
         Variable(4, 51, <<"a">>))>>))>>)]

\* v = x
sess_var ==
    [text |-> <<"v = x", "\n">>,
     tree |-> Body(1, 0, <<Assign(1, 0, Variable(1, 0, <<"v">>), Variable(1, 4,
         <<"x">>))>>)]

\* p = Point(1, 2)
sess_struct ==
    [text |-> <<"p = Point(1, 2)", "\n">>,
     tree |-> Body(1, 0, <<Assign(1, 0, Variable(1, 0, <<"p">>), Call(1, 4, <<"Point">>,
         <<Constant(1, 10, IntV(1)), Constant(1, 13, IntV(2))>>))>>)]

\* r = f(1)
sess_func ==
    [text |-> <<"r = f(1)", "\n">>,
     tree |-> Body(1, 0, <<Assign(1, 0, Variable(1, 0, <<"r">>), Call(1, 4, <<"f">>,
         <<Constant(1, 6, IntV(1))>>))>>)]

\* puts(1)
sess_puts ==
    [text |-> <<"puts(1)", "\n">>,
     tree |-> Body(1, 0, <<Call(1, 0, <<"puts">>, <<Constant(1, 5, IntV(1))>>)>>)]

\* struct P { b }
\* a = P(5)
\* func f(a) {
\*     return a.b
\* }
\* r = f(7)
scope_shadow ==
    [text |-> <<"struct P { b }", "\n", "a = P(5)", "\n", "func f(a) {", "\n",
              "    return a.b", "\n", "}", "\n", "r = f(7)", "\n">>,
     tree |-> Body(1, 0, <<Struct(1, 0, <<"P">>, <<<<"b">>>>, <<>>), Assign(2, 15,
         Variable(2, 15, <<"a">>), Call(2, 19, <<"P">>, <<Constant(2, 21,
         IntV(5))>>)), Function(3, 24, <<"f">>, <<<<"a">>>>, Body(4, 40,
         <<FunctionReturn(4, 40, Variable(4, 47, <<"a", ".", "b">>))>>)),
         Assign(6, 53, Variable(6, 53, <<"r">>), Call(6, 57, <<"f">>,
         <<Constant(6, 59, IntV(7))>>))>>)]

\* struct P { b }
\* struct Q { c }
\* a = P(5)
\* func f(a) {
\*     return a.b
\* }
\* r = f(Q(1))
scope_other ==
    [text |-> <<"struct P { b }", "\n", "struct Q { c }", "\n", "a = P(5)", "\n",
              "func f(a) {", "\n", "    return a.b", "\n", "}", "\n",
              "r = f(Q(1))", "\n">>,
     tree |-> Body(1, 0, <<Struct(1, 0, <<"P">>, <<<<"b">>>>, <<>>), Struct(2, 15,
         <<"Q">>, <<<<"c">>>>, <<>>), Assign(3, 30, Variable(3, 30,
         <<"a">>), Call(3, 34, <<"P">>, <<Constant(3, 36, IntV(5))>>)),
         Function(4, 39, <<"f">>, <<<<"a">>>>, Body(5, 55,
         <<FunctionReturn(5, 55, Variable(5, 62, <<"a", ".", "b">>))>>)),
         Assign(7, 68, Variable(7, 68, <<"r">>), Call(7, 72, <<"f">>,
         <<Call(7, 74, <<"Q">>, <<Constant(7, 76, IntV(1))>>)>>))>>)]

\* struct P { b }
\* a = P(5)
\* func f(a) {
\*     return a.b
\* }
\* r = f(P(6))
scope_local ==
    [text |-> <<"struct P { b }", "\n", "a = P(5)", "\n", "func f(a) {", "\n",
              "    return a.b", "\n", "}", "\n", "r = f(P(6))", "\n">>,
     tree |-> Body(1, 0, <<Struct(1, 0, <<"P">>, <<<<"b">>>>, <<>>), Assign(2, 15,
         Variable(2, 15, <<"a">>), Call(2, 19, <<"P">>, <<Constant(2, 21,
         IntV(5))>>)), Function(3, 24, <<"f">>, <<<<"a">>>>, Body(4, 40,
         <<FunctionReturn(4, 40, Variable(4, 47, <<"a", ".", "b">>))>>)),
         Assign(6, 53, Variable(6, 53, <<"r">>), Call(6, 57, <<"f">>,
         <<Call(6, 59, <<"P">>, <<Constant(6, 61, IntV(6))>>)>>))>>)]

\* struct P { b }
\* a = P(5)
\* func g(x) {
\*     return a.b
\* }
\* r = g(0)
scope_global ==
    [text |-> <<"struct P { b }", "\n", "a = P(5)", "\n", "func g(x) {", "\n",
              "    return a.b", "\n", "}", "\n", "r = g(0)", "\n">>,
     tree |-> Body(1, 0, <<Struct(1, 0, <<"P">>, <<<<"b">>>>, <<>>), Assign(2, 15,
         Variable(2, 15, <<"a">>), Call(2, 19, <<"P">>, <<Constant(2, 21,
         IntV(5))>>)), Function(3, 24, <<"g">>, <<<<"x">>>>, Body(4, 40,
         <<FunctionReturn(4, 40, Variable(4, 47, <<"a", ".", "b">>))>>)),
         Assign(6, 53, Variable(6, 53, <<"r">>), Call(6, 57, <<"g">>,
         <<Constant(6, 59, IntV(0))>>))>>)]

\* a = 1
\* func f(a) {
\*     return a
\* }
\* r = f(2)
scope_plain ==
    [text |-> <<"a = 1", "\n", "func f(a) {", "\n", "    return a", "\n", "}", "\n",
              "r = f(2)", "\n">>,
     tree |-> Body(1, 0, <<Assign(1, 0, Variable(1, 0, <<"a">>), Constant(1, 4, IntV(1))),
         Function(2, 6, <<"f">>, <<<<"a">>>>, Body(3, 22,
         <<FunctionReturn(3, 22, Variable(3, 29, <<"a">>))>>)), Assign(5,
         33, Variable(5, 33, <<"r">>), Call(5, 37, <<"f">>, <<Constant(5,
         39, IntV(2))>>))>>)]

\* func f(a) {
\*     return a.b
\* }
\* r = f(7)
scope_none ==
    [text |-> <<"func f(a) {", "\n", "    return a.b", "\n", "}", "\n", "r = f(7)", "\n">>,
     tree |-> Body(1, 0, <<Function(1, 0, <<"f">>, <<<<"a">>>>, Body(2, 16,
         <<FunctionReturn(2, 16, Variable(2, 23, <<"a", ".", "b">>))>>)),
         Assign(4, 29, Variable(4, 29, <<"r">>), Call(4, 33, <<"f">>,
         <<Constant(4, 35, IntV(7))>>))>>)]

\* struct P { x }
\* p = P(1)
\* func f(q) {
\*     q.x = 9
\*     return 0
\* }
\* r = f(p)
arg_record ==
    [text |-> <<"struct P { x }", "\n", "p = P(1)", "\n", "func f(q) {", "\n",
              "    q.x = 9", "\n", "    return 0", "\n", "}", "\n",
              "r = f(p)", "\n">>,
     tree |-> Body(1, 0, <<Struct(1, 0, <<"P">>, <<<<"x">>>>, <<>>), Assign(2, 15,
         Variable(2, 15, <<"p">>), Call(2, 19, <<"P">>, <<Constant(2, 21,
         IntV(1))>>)), Function(3, 24, <<"f">>, <<<<"q">>>>, Body(4, 40,
         <<Assign(4, 40, Variable(4, 40, <<"q", ".", "x">>), Constant(4, 46,
         IntV(9))), FunctionReturn(5, 52, Constant(5, 59, IntV(0)))>>)),
         Assign(7, 63, Variable(7, 63, <<"r">>), Call(7, 67, <<"f">>,
         <<Variable(7, 69, <<"p">>)>>))>>)]

\* n = 1
\* func f(n) {
\*     n = 5
\*     m = 6
\*     return n
\* }
\* r = f(n)
arg_plain ==
    [text |-> <<"n = 1", "\n", "func f(n) {", "\n", "    n = 5", "\n", "    m = 6", "\n",
              "    return n", "\n", "}", "\n", "r = f(n)", "\n">>,
     tree |-> Body(1, 0, <<Assign(1, 0, Variable(1, 0, <<"n">>), Constant(1, 4, IntV(1))),
         Function(2, 6, <<"f">>, <<<<"n">>>>, Body(3, 22, <<Assign(3, 22,
         Variable(3, 22, <<"n">>), Constant(3, 26, IntV(5))), Assign(4, 32,
         Variable(4, 32, <<"m">>), Constant(4, 36, IntV(6))),
         FunctionReturn(5, 42, Variable(5, 49, <<"n">>))>>)), Assign(7, 53,
         Variable(7, 53, <<"r">>), Call(7, 57, <<"f">>, <<Variable(7, 59,
         <<"n">>)>>))>>)]

\* func id(a) {
\*     return a
\* }
\* func g(a) {
\*     return id(a + 1)
\* }
\* r = g(1)
arg_caller ==
    [text |-> <<"func id(a) {", "\n", "    return a", "\n", "}", "\n", "func g(a) {",
              "\n", "    return id(a + 1)", "\n", "}", "\n", "r = g(1)",
              "\n">>,
     tree |-> Body(1, 0, <<Function(1, 0, <<"id">>, <<<<"a">>>>, Body(2, 17,
         <<FunctionReturn(2, 17, Variable(2, 24, <<"a">>))>>)), Function(4,
         28, <<"g">>, <<<<"a">>>>, Body(5, 44, <<FunctionReturn(5, 44,
         Call(5, 51, <<"id">>, <<BinaryOp(5, 54, "+", Variable(5, 54,
         <<"a">>), Constant(5, 58, IntV(1)))>>))>>)), Assign(7, 63,
         Variable(7, 63, <<"r">>), Call(7, 67, <<"g">>, <<Constant(7, 69,
         IntV(1))>>))>>)]

\* func f(a) {
\*     return 1
\*     a = 5
\*     return a
\* }
\* r = f(0)
ret_direct ==
    [text |-> <<"func f(a) {", "\n", "    return 1", "\n", "    a = 5", "\n",
              "    return a", "\n", "}", "\n", "r = f(0)", "\n">>,
     tree |-> Body(1, 0, <<Function(1, 0, <<"f">>, <<<<"a">>>>, Body(2, 16,
         <<FunctionReturn(2, 16, Constant(2, 23, IntV(1))), Assign(3, 29,
         Variable(3, 29, <<"a">>), Constant(3, 33, IntV(5))),
         FunctionReturn(4, 39, Variable(4, 46, <<"a">>))>>)), Assign(6, 50,
         Variable(6, 50, <<"r">>), Call(6, 54, <<"f">>, <<Constant(6, 56,
         IntV(0))>>))>>)]

\* func f(a) {
\*     if a {
\*         return 1
\*     }
\*     return 2
\* }
\* r = f(1)
ret_cond ==
    [text |-> <<"func f(a) {", "\n", "    if a {", "\n", "        return 1", "\n",
              "    }", "\n", "    return 2", "\n", "}", "\n", "r = f(1)",
              "\n">>,
     tree |-> Body(1, 0, <<Function(1, 0, <<"f">>, <<<<"a">>>>, Body(2, 16,
         <<Conditional(2, 16, Variable(2, 19, <<"a">>), Body(3, 31,
         <<FunctionReturn(3, 31, Constant(3, 38, IntV(1)))>>), NoNode),
         FunctionReturn(5, 50, Constant(5, 57, IntV(2)))>>)), Assign(7, 61,
         Variable(7, 61, <<"r">>), Call(7, 65, <<"f">>, <<Constant(7, 67,
         IntV(1))>>))>>)]

\* func f(a) {
\*     if a {
\*         return 1
\*     } else {
\*         return 3
\*     }
\*     return 2
\* }
\* r = f(0)
ret_else ==
    [text |-> <<"func f(a) {", "\n", "    if a {", "\n", "        return 1", "\n",
              "    } else {", "\n", "        return 3", "\n", "    }", "\n",
              "    return 2", "\n", "}", "\n", "r = f(0)", "\n">>,
     tree |-> Body(1, 0, <<Function(1, 0, <<"f">>, <<<<"a">>>>, Body(2, 16,
         <<Conditional(2, 16, Variable(2, 19, <<"a">>), Body(3, 31,
         <<FunctionReturn(3, 31, Constant(3, 38, IntV(1)))>>), Body(5, 61,
         <<FunctionReturn(5, 61, Constant(5, 68, IntV(3)))>>)),
         FunctionReturn(7, 80, Constant(7, 87, IntV(2)))>>)), Assign(9, 91,
         Variable(9, 91, <<"r">>), Call(9, 95, <<"f">>, <<Constant(9, 97,
         IntV(0))>>))>>)]

\* func f(a) {
\*     for i = 0, i <= 1, i += 1 {
\*         return i
\*     }
\*     return 9
\* }
\* r = f(0)
ret_loop ==
    [text |-> <<"func f(a) {", "\n", "    for i = 0, i <= 1, i += 1 {", "\n",
              "        return i", "\n", "    }", "\n", "    return 9", "\n",
              "}", "\n", "r = f(0)", "\n">>,
     tree |-> Body(1, 0, <<Function(1, 0, <<"f">>, <<<<"a">>>>, Body(2, 16, <<Loop(2, 16,
         BinaryOp(2, 27, "<=", Variable(2, 27, <<"i">>), Constant(2, 32,
         IntV(1))), Body(3, 52, <<FunctionReturn(3, 52, Variable(3, 59,
         <<"i">>))>>), Assign(2, 20, Variable(2, 20, <<"i">>), Constant(2,
         24, IntV(0))), Assign(2, 35, Variable(2, 35, <<"i">>), BinaryOp(2,
         35, "+", Variable(2, 35, <<"i">>), Constant(2, 40, IntV(1))))),
         FunctionReturn(5, 71, Constant(5, 78, IntV(9)))>>)), Assign(7, 82,
         Variable(7, 82, <<"r">>), Call(7, 86, <<"f">>, <<Constant(7, 88,
         IntV(0))>>))>>)]

\* func f(a) {
\*     while a <= 1 {
\*         return 4
\*     }
\*     return 9
\* }
\* r = f(0)
ret_while ==
    [text |-> <<"func f(a) {", "\n", "    while a <= 1 {", "\n", "        return 4", "\n",
              "    }", "\n", "    return 9", "\n", "}", "\n", "r = f(0)",
              "\n">>,
     tree |-> Body(1, 0, <<Function(1, 0, <<"f">>, <<<<"a">>>>, Body(2, 16, <<Loop(2, 16,
         BinaryOp(2, 22, "<=", Variable(2, 22, <<"a">>), Constant(2, 27,
         IntV(1))), Body(3, 39, <<FunctionReturn(3, 39, Constant(3, 46,
         IntV(4)))>>), NoNode, NoNode), FunctionReturn(5, 58, Constant(5,
         65, IntV(9)))>>)), Assign(7, 69, Variable(7, 69, <<"r">>), Call(7,
         73, <<"f">>, <<Constant(7, 75, IntV(0))>>))>>)]

\* func f(a) {
\*     if a {
\*         a = 2
\*     }
\*     return a
\* }
\* r = f(1)
ret_last ==
    [text |-> <<"func f(a) {", "\n", "    if a {", "\n", "        a = 2", "\n", "    }",
              "\n", "    return a", "\n", "}", "\n", "r = f(1)", "\n">>,
     tree |-> Body(1, 0, <<Function(1, 0, <<"f">>, <<<<"a">>>>, Body(2, 16,
         <<Conditional(2, 16, Variable(2, 19, <<"a">>), Body(3, 31,
         <<Assign(3, 31, Variable(3, 31, <<"a">>), Constant(3, 35,
         IntV(2)))>>), NoNode), FunctionReturn(5, 47, Variable(5, 54,
         <<"a">>))>>)), Assign(7, 58, Variable(7, 58, <<"r">>), Call(7, 62,
         <<"f">>, <<Constant(7, 64, IntV(1))>>))>>)]

\* func n(a) {
\*     println(a)
\*     return a
\* }
\* func f(a) {
\*     println(a)
\*     return true
\* }
\* r = false && f(1)
bin_and ==
    [text |-> <<"func n(a) {", "\n", "    println(a)", "\n", "    return a", "\n", "}",
              "\n", "func f(a) {", "\n", "    println(a)", "\n",
              "    return true", "\n", "}", "\n", "r = false && f(1)",
              "\n">>,
     tree |-> Body(1, 0, <<Function(1, 0, <<"n">>, <<<<"a">>>>, Body(2, 16, <<Call(2, 16,
         <<"println">>, <<Variable(2, 24, <<"a">>)>>), FunctionReturn(3, 31,
         Variable(3, 38, <<"a">>))>>)), Function(5, 42, <<"f">>,
         <<<<"a">>>>, Body(6, 58, <<Call(6, 58, <<"println">>, <<Variable(6,
         66, <<"a">>)>>), FunctionReturn(7, 73, Constant(7, 80,
         BoolV(TRUE)))>>)), Assign(9, 87, Variable(9, 87, <<"r">>),
         BinaryOp(9, 91, "&&", Constant(9, 91, BoolV(FALSE)), Call(9, 100,
         <<"f">>, <<Constant(9, 102, IntV(1))>>)))>>)]

\* func n(a) {
\*     println(a)
\*     return a
\* }
\* func f(a) {
\*     println(a)
\*     return true
\* }
\* r = true || f(2)
bin_or ==
    [text |-> <<"func n(a) {", "\n", "    println(a)", "\n", "    return a", "\n", "}",
              "\n", "func f(a) {", "\n", "    println(a)", "\n",
              "    return true", "\n", "}", "\n", "r = true || f(2)", "\n">>,
     tree |-> Body(1, 0, <<Function(1, 0, <<"n">>, <<<<"a">>>>, Body(2, 16, <<Call(2, 16,
         <<"println">>, <<Variable(2, 24, <<"a">>)>>), FunctionReturn(3, 31,
         Variable(3, 38, <<"a">>))>>)), Function(5, 42, <<"f">>,
         <<<<"a">>>>, Body(6, 58, <<Call(6, 58, <<"println">>, <<Variable(6,
         66, <<"a">>)>>), FunctionReturn(7, 73, Constant(7, 80,
         BoolV(TRUE)))>>)), Assign(9, 87, Variable(9, 87, <<"r">>),
         BinaryOp(9, 91, "||", Constant(9, 91, BoolV(TRUE)), Call(9, 99,
         <<"f">>, <<Constant(9, 101, IntV(2))>>)))>>)]

\* func n(a) {
\*     println(a)
\*     return a
\* }
\* func f(a) {
\*     println(a)
\*     return true
\* }
\* r = f(1) && f(2)
bin_and_true ==
    [text |-> <<"func n(a) {", "\n", "    println(a)", "\n", "    return a", "\n", "}",
              "\n", "func f(a) {", "\n", "    println(a)", "\n",
              "    return true", "\n", "}", "\n", "r = f(1) && f(2)", "\n">>,
     tree |-> Body(1, 0, <<Function(1, 0, <<"n">>, <<<<"a">>>>, Body(2, 16, <<Call(2, 16,
         <<"println">>, <<Variable(2, 24, <<"a">>)>>), FunctionReturn(3, 31,
         Variable(3, 38, <<"a">>))>>)), Function(5, 42, <<"f">>,
         <<<<"a">>>>, Body(6, 58, <<Call(6, 58, <<"println">>, <<Variable(6,
         66, <<"a">>)>>), FunctionReturn(7, 73, Constant(7, 80,
         BoolV(TRUE)))>>)), Assign(9, 87, Variable(9, 87, <<"r">>),
         BinaryOp(9, 91, "&&", Call(9, 91, <<"f">>, <<Constant(9, 93,
         IntV(1))>>), Call(9, 99, <<"f">>, <<Constant(9, 101,
         IntV(2))>>)))>>)]

\* func n(a) {
\*     println(a)
\*     return a
\* }
\* func f(a) {
\*     println(a)
\*     return true
\* }
\* r = n(1) + n(2)
bin_add ==
    [text |-> <<"func n(a) {", "\n", "    println(a)", "\n", "    return a", "\n", "}",
              "\n", "func f(a) {", "\n", "    println(a)", "\n",
              "    return true", "\n", "}", "\n", "r = n(1) + n(2)", "\n">>,
     tree |-> Body(1, 0, <<Function(1, 0, <<"n">>, <<<<"a">>>>, Body(2, 16, <<Call(2, 16,
         <<"println">>, <<Variable(2, 24, <<"a">>)>>), FunctionReturn(3, 31,
         Variable(3, 38, <<"a">>))>>)), Function(5, 42, <<"f">>,
         <<<<"a">>>>, Body(6, 58, <<Call(6, 58, <<"println">>, <<Variable(6,
         66, <<"a">>)>>), FunctionReturn(7, 73, Constant(7, 80,
         BoolV(TRUE)))>>)), Assign(9, 87, Variable(9, 87, <<"r">>),
         BinaryOp(9, 91, "+", Call(9, 91, <<"n">>, <<Constant(9, 93,
         IntV(1))>>), Call(9, 98, <<"n">>, <<Constant(9, 100,
         IntV(2))>>)))>>)]

\* func n(a) {
\*     println(a)
\*     return a
\* }
\* func f(a) {
\*     println(a)
\*     return true
\* }
\* r = (n(1) - n(2)) - n(3)
bin_left ==
    [text |-> <<"func n(a) {", "\n", "    println(a)", "\n", "    return a", "\n", "}",
              "\n", "func f(a) {", "\n", "    println(a)", "\n",
              "    return true", "\n", "}", "\n",
              "r = (n(1) - n(2)) - n(3)", "\n">>,
     tree |-> Body(1, 0, <<Function(1, 0, <<"n">>, <<<<"a">>>>, Body(2, 16, <<Call(2, 16,
         <<"println">>, <<Variable(2, 24, <<"a">>)>>), FunctionReturn(3, 31,
         Variable(3, 38, <<"a">>))>>)), Function(5, 42, <<"f">>,
         <<<<"a">>>>, Body(6, 58, <<Call(6, 58, <<"println">>, <<Variable(6,
         66, <<"a">>)>>), FunctionReturn(7, 73, Constant(7, 80,
         BoolV(TRUE)))>>)), Assign(9, 87, Variable(9, 87, <<"r">>),
         BinaryOp(9, 91, "-", BinaryOp(9, 92, "-", Call(9, 92, <<"n">>,
         <<Constant(9, 94, IntV(1))>>), Call(9, 99, <<"n">>, <<Constant(9,
         101, IntV(2))>>)), Call(9, 107, <<"n">>, <<Constant(9, 109,
         IntV(3))>>)))>>)]

\* func n(a) {
\*     println(a)
\*     return a
\* }
\* func f(a) {
\*     println(a)
\*     return true
\* }
\* r = n(1) - (n(2) - n(3))
bin_right ==
    [text |-> <<"func n(a) {", "\n", "    println(a)", "\n", "    return a", "\n", "}",
              "\n", "func f(a) {", "\n", "    println(a)", "\n",
              "    return true", "\n", "}", "\n",
              "r = n(1) - (n(2) - n(3))", "\n">>,
     tree |-> Body(1, 0, <<Function(1, 0, <<"n">>, <<<<"a">>>>, Body(2, 16, <<Call(2, 16,
         <<"println">>, <<Variable(2, 24, <<"a">>)>>), FunctionReturn(3, 31,
         Variable(3, 38, <<"a">>))>>)), Function(5, 42, <<"f">>,
         <<<<"a">>>>, Body(6, 58, <<Call(6, 58, <<"println">>, <<Variable(6,
         66, <<"a">>)>>), FunctionReturn(7, 73, Constant(7, 80,
         BoolV(TRUE)))>>)), Assign(9, 87, Variable(9, 87, <<"r">>),
         BinaryOp(9, 91, "-", Call(9, 91, <<"n">>, <<Constant(9, 93,
         IntV(1))>>), BinaryOp(9, 99, "-", Call(9, 99, <<"n">>,
         <<Constant(9, 101, IntV(2))>>), Call(9, 106, <<"n">>, <<Constant(9,
         108, IntV(3))>>))))>>)]

\* func n(a) {
\*     println(a)
\*     return a
\* }
\* func f(a) {
\*     println(a)
\*     return true
\* }
\* r = n(2) <= n(1)
bin_compare ==
    [text |-> <<"func n(a) {", "\n", "    println(a)", "\n", "    return a", "\n", "}",
              "\n", "func f(a) {", "\n", "    println(a)", "\n",
              "    return true", "\n", "}", "\n", "r = n(2) <= n(1)", "\n">>,
     tree |-> Body(1, 0, <<Function(1, 0, <<"n">>, <<<<"a">>>>, Body(2, 16, <<Call(2, 16,
         <<"println">>, <<Variable(2, 24, <<"a">>)>>), FunctionReturn(3, 31,
         Variable(3, 38, <<"a">>))>>)), Function(5, 42, <<"f">>,
         <<<<"a">>>>, Body(6, 58, <<Call(6, 58, <<"println">>, <<Variable(6,
         66, <<"a">>)>>), FunctionReturn(7, 73, Constant(7, 80,
         BoolV(TRUE)))>>)), Assign(9, 87, Variable(9, 87, <<"r">>),
         BinaryOp(9, 91, "<=", Call(9, 91, <<"n">>, <<Constant(9, 93,
         IntV(2))>>), Call(9, 99, <<"n">>, <<Constant(9, 101,
         IntV(1))>>)))>>)]

\* a = 1
\* b = 2
\* c = foo
\* d = 4
\* e = 5
diag_end ==
    [text |-> <<"a = 1", "\n", "b = 2", "\n", "c = foo", "\n", "d = 4", "\n", "e = 5",
              "\n">>,
     tree |-> Body(1, 0, <<Assign(1, 0, Variable(1, 0, <<"a">>), Constant(1, 4, IntV(1))),
         Assign(2, 6, Variable(2, 6, <<"b">>), Constant(2, 10, IntV(2))),
         Assign(3, 12, Variable(3, 12, <<"c">>), Variable(3, 16,
         <<"foo">>)), Assign(4, 20, Variable(4, 20, <<"d">>), Constant(4,
         24, IntV(4))), Assign(5, 26, Variable(5, 26, <<"e">>), Constant(5,
         30, IntV(5)))>>)]

\* a = 1
\* b = 2
\* c = foo + 1
\* d = 4
\* e = 5
diag_mid ==
    [text |-> <<"a = 1", "\n", "b = 2", "\n", "c = foo + 1", "\n", "d = 4", "\n", "e = 5",
              "\n">>,
     tree |-> Body(1, 0, <<Assign(1, 0, Variable(1, 0, <<"a">>), Constant(1, 4, IntV(1))),
         Assign(2, 6, Variable(2, 6, <<"b">>), Constant(2, 10, IntV(2))),
         Assign(3, 12, Variable(3, 12, <<"c">>), BinaryOp(3, 16, "+",
         Variable(3, 16, <<"foo">>), Constant(3, 22, IntV(1)))), Assign(4,
         24, Variable(4, 24, <<"d">>), Constant(4, 28, IntV(4))), Assign(5,
         30, Variable(5, 30, <<"e">>), Constant(5, 34, IntV(5)))>>)]

\* c = 1 + foo
diag_first ==
    [text |-> <<"c = 1 + foo", "\n">>,
     tree |-> Body(1, 0, <<Assign(1, 0, Variable(1, 0, <<"c">>), BinaryOp(1, 4, "+",
         Constant(1, 4, IntV(1)), Variable(1, 8, <<"foo">>)))>>)]

\* a = 1
\* b = 2
\* println(foo)
\* d = 4
\* e = 5
diag_call ==
    [text |-> <<"a = 1", "\n", "b = 2", "\n", "println(foo)", "\n", "d = 4", "\n",
              "e = 5", "\n">>,
     tree |-> Body(1, 0, <<Assign(1, 0, Variable(1, 0, <<"a">>), Constant(1, 4, IntV(1))),
         Assign(2, 6, Variable(2, 6, <<"b">>), Constant(2, 10, IntV(2))),
         Call(3, 12, <<"println">>, <<Variable(3, 20, <<"foo">>)>>),
         Assign(4, 25, Variable(4, 25, <<"d">>), Constant(4, 29, IntV(4))),
         Assign(5, 31, Variable(5, 31, <<"e">>), Constant(5, 35,
         IntV(5)))>>)]

\* println("A")
\* who = "A"
lib_m_stdlib ==
    [text |-> <<"println(\"A\")", "\n", "who = \"A\"", "\n">>,
     tree |-> Body(1, 0, <<Call(1, 0, <<"println">>, <<Constant(1, 8, StrV(<<"A">>))>>),
         Assign(2, 13, Variable(2, 13, <<"who">>), Constant(2, 19,
         StrV(<<"A">>)))>>)]

\* println("B")
\* who = "B"
lib_m_site ==
    [text |-> <<"println(\"B\")", "\n", "who = \"B\"", "\n">>,
     tree |-> Body(1, 0, <<Call(1, 0, <<"println">>, <<Constant(1, 8, StrV(<<"B">>))>>),
         Assign(2, 13, Variable(2, 13, <<"who">>), Constant(2, 19,
         StrV(<<"B">>)))>>)]

\* r = 2 + 3 * 4
expr_add_mul ==
    Parsed(<<"r = 2 + 3 * 4", "\n">>,
           <<Token("ID", "r", 1, 0), Token("ASSIGN", "=", 1, 2), Token("NUMBER", 2, 1,
             4), Token("PLUS", "+", 1, 6), Token("NUMBER", 3, 1, 8),
             Token("TIMES", "*", 1, 10), Token("NUMBER", 4, 1, 12)>>)

\* r = 2 * 3 + 4
expr_mul_add ==
    Parsed(<<"r = 2 * 3 + 4", "\n">>,
           <<Token("ID", "r", 1, 0), Token("ASSIGN", "=", 1, 2), Token("NUMBER", 2, 1,
             4), Token("TIMES", "*", 1, 6), Token("NUMBER", 3, 1, 8),
             Token("PLUS", "+", 1, 10), Token("NUMBER", 4, 1, 12)>>)

\* r = (2 + 3) * 4
expr_group ==
    Parsed(<<"r = (2 + 3) * 4", "\n">>,
           <<Token("ID", "r", 1, 0), Token("ASSIGN", "=", 1, 2), Token("LPAREN", "(",
             1, 4), Token("NUMBER", 2, 1, 5), Token("PLUS", "+", 1, 7),
             Token("NUMBER", 3, 1, 9), Token("RPAREN", ")", 1, 10),
             Token("TIMES", "*", 1, 12), Token("NUMBER", 4, 1, 14)>>)

\* r = 9 - 2 * 3
expr_sub_mul ==
    Parsed(<<"r = 9 - 2 * 3", "\n">>,
           <<Token("ID", "r", 1, 0), Token("ASSIGN", "=", 1, 2), Token("NUMBER", 9, 1,
             4), Token("MINUS", "-", 1, 6), Token("NUMBER", 2, 1, 8),
             Token("TIMES", "*", 1, 10), Token("NUMBER", 3, 1, 12)>>)

\* r = 2 * 3 - 1
expr_mul_sub ==
    Parsed(<<"r = 2 * 3 - 1", "\n">>,
           <<Token("ID", "r", 1, 0), Token("ASSIGN", "=", 1, 2), Token("NUMBER", 2, 1,
             4), Token("TIMES", "*", 1, 6), Token("NUMBER", 3, 1, 8),
             Token("MINUS", "-", 1, 10), Token("NUMBER", 1, 1, 12)>>)

\* r = 2 ^ 3 ^ 2
expr_pow_pow ==
    Parsed(<<"r = 2 ^ 3 ^ 2", "\n">>,
           <<Token("ID", "r", 1, 0), Token("ASSIGN", "=", 1, 2), Token("NUMBER", 2, 1,
             4), Token("POWER", "^", 1, 6), Token("NUMBER", 3, 1, 8),
             Token("POWER", "^", 1, 10), Token("NUMBER", 2, 1, 12)>>)

\* r = 10 - 3 - 2
expr_sub_sub ==
    Parsed(<<"r = 10 - 3 - 2", "\n">>,
           <<Token("ID", "r", 1, 0), Token("ASSIGN", "=", 1, 2), Token("NUMBER", 10, 1,
             4), Token("MINUS", "-", 1, 7), Token("NUMBER", 3, 1, 9),
             Token("MINUS", "-", 1, 11), Token("NUMBER", 2, 1, 13)>>)

\* r = 1 + 2 - 3
expr_add_sub ==
    Parsed(<<"r = 1 + 2 - 3", "\n">>,
           <<Token("ID", "r", 1, 0), Token("ASSIGN", "=", 1, 2), Token("NUMBER", 1, 1,
             4), Token("PLUS", "+", 1, 6), Token("NUMBER", 2, 1, 8),
             Token("MINUS", "-", 1, 10), Token("NUMBER", 3, 1, 12)>>)

\* x = 1
\* y = 2 +
err_syntax ==
    Parsed(<<"x = 1", "\n", "y = 2 +", "\n">>,
           <<Token("ID", "x", 1, 0), Token("ASSIGN", "=", 1, 2), Token("NUMBER", 1, 1,
             4), Token("ID", "y", 2, 6), Token("ASSIGN", "=", 2, 8),
             Token("NUMBER", 2, 2, 10), Token("PLUS", "+", 2, 12)>>)

\* y = 7
\* z = 2 * 3
err_two ==
    Parsed(<<"y = 7", "\n", "z = 2 * 3", "\n">>,
           <<Token("ID", "y", 1, 0), Token("ASSIGN", "=", 1, 2), Token("NUMBER", 7, 1,
             4), Token("ID", "z", 2, 6), Token("ASSIGN", "=", 2, 8),
             Token("NUMBER", 2, 2, 10), Token("TIMES", "*", 2, 12),
             Token("NUMBER", 3, 2, 14)>>)

\* x = 1
typed_x ==
    [text |-> <<"x = 1">>,
     tree |-> Body(1, 0, <<Assign(1, 0, Variable(1, 0, <<"x">>), Constant(1, 4,
         IntV(1)))>>)]

\* q.x = 9
typed_key ==
    [text |-> <<"q.x = 9">>,
     tree |-> Body(1, 0, <<Assign(1, 0, Variable(1, 0, <<"q", ".", "x">>), Constant(1, 6,
         IntV(9)))>>)]

\* r = (
\* x)
typed_paren ==
    [text |-> <<"r = ", "(", "\n", "x", ")">>,
     tree |-> Body(1, 0, <<Assign(1, 0, Variable(1, 0, <<"r">>), Variable(2, 6,
         <<"x">>))>>)]

\* r = (
\* 
\* x)
typed_paren_blank ==
    [text |-> <<"r = ", "(", "\n", "\n", "x", ")">>,
     tree |-> Body(1, 0, <<Assign(1, 0, Variable(1, 0, <<"r">>), Variable(3, 7,
         <<"x">>))>>)]

\* r = (
\* 
\* 
\* x)
typed_paren_blanks ==
    [text |-> <<"r = ", "(", "\n", "\n", "\n", "x", ")">>,
     tree |-> Body(1, 0, <<Assign(1, 0, Variable(1, 0, <<"r">>), Variable(4, 8,
         <<"x">>))>>)]

\* y = [
\* 1]
typed_brack ==
    [text |-> <<"y = ", "[", "\n", "1", "]">>,
     tree |-> Body(1, 0, <<Assign(1, 0, Variable(1, 0, <<"y">>), Array(1, 4, <<Constant(2,
         6, IntV(1))>>))>>)]

\* y = [
\* 
\* 1]
typed_brack_blank ==
    [text |-> <<"y = ", "[", "\n", "\n", "1", "]">>,
     tree |-> Body(1, 0, <<Assign(1, 0, Variable(1, 0, <<"y">>), Array(1, 4, <<Constant(3,
         7, IntV(1))>>))>>)]

\* y = [
\* 
\* 
\* 1]
typed_brack_blanks ==
    [text |-> <<"y = ", "[", "\n", "\n", "\n", "1", "]">>,
     tree |-> Body(1, 0, <<Assign(1, 0, Variable(1, 0, <<"y">>), Array(1, 4, <<Constant(4,
         8, IntV(1))>>))>>)]

\* func f() {
\*     x = 1
\* }
unit_plain ==
    Unit(<<"func f() {", "\n", "    x = 1", "\n", "}", "\n">>,
         <<Token("FUNC", "func", 1, 0), Token("ID", "f", 1, 5), Token("LPAREN", "(",
           1, 6), Token("RPAREN", ")", 1, 7), Token("LBRACE", "{", 1, 9),
           Token("ID", "x", 2, 15), Token("ASSIGN", "=", 2, 17),
           Token("NUMBER", 1, 2, 19), Token("RBRACE", "}", 3, 21)>>)

\* func f() returns {
\*     x = 1
\* }
unit_returns ==
    Unit(<<"func f() returns {", "\n", "    x = 1", "\n", "}", "\n">>,
         <<Token("FUNC", "func", 1, 0), Token("ID", "f", 1, 5), Token("LPAREN", "(",
           1, 6), Token("RPAREN", ")", 1, 7), Token("RETURNS", "returns", 1,
           9), Token("LBRACE", "{", 1, 17), Token("ID", "x", 2, 23),
           Token("ASSIGN", "=", 2, 25), Token("NUMBER", 1, 2, 27),
           Token("RBRACE", "}", 3, 29)>>)

\* import pragma.cub
unit_pragma ==
    Unit(<<"import pragma.cub", "\n">>,
         <<Token("IMPORT", "import", 1, 0), Token("ID", "pragma", 1, 7), Token("DOT",
           ".", 1, 13), Token("ID", "cub", 1, 14)>>)

\* import pragma.cub
\* func f() returns {
\*     x = 1
\* }
unit_pragma_returns ==
    Unit(<<"import pragma.cub", "\n", "func f() returns {", "\n", "    x = 1", "\n",
         "}", "\n">>,
         <<Token("IMPORT", "import", 1, 0), Token("ID", "pragma", 1, 7), Token("DOT",
           ".", 1, 13), Token("ID", "cub", 1, 14), Token("FUNC", "func", 2,
           18), Token("ID", "f", 2, 23), Token("LPAREN", "(", 2, 24),
           Token("RPAREN", ")", 2, 25), Token("RETURNS", "returns", 2, 27),
           Token("LBRACE", "{", 2, 35), Token("ID", "x", 3, 41),
           Token("ASSIGN", "=", 3, 43), Token("NUMBER", 1, 3, 45),
           Token("RBRACE", "}", 4, 47)>>)

\* func f() returns {
\*     x = 1
\* }
\* import pragma.cub
unit_returns_pragma ==
    Unit(<<"func f() returns {", "\n", "    x = 1", "\n", "}", "\n",
         "import pragma.cub", "\n">>,
         <<Token("FUNC", "func", 1, 0), Token("ID", "f", 1, 5), Token("LPAREN", "(",
           1, 6), Token("RPAREN", ")", 1, 7), Token("RETURNS", "returns", 1,
           9), Token("LBRACE", "{", 1, 17), Token("ID", "x", 2, 23),
           Token("ASSIGN", "=", 2, 25), Token("NUMBER", 1, 2, 27),
           Token("RBRACE", "}", 3, 29), Token("IMPORT", "import", 4, 31),
           Token("ID", "pragma", 4, 38), Token("DOT", ".", 4, 44),
           Token("ID", "cub", 4, 45)>>)

\* import m
\* func f() returns {
\*     x = 1
\* }
unit_import_returns ==
    Unit(<<"import m", "\n", "func f() returns {", "\n", "    x = 1", "\n", "}",
         "\n">>,
         <<Token("IMPORT", "import", 1, 0), Token("ID", "m", 1, 7), Token("FUNC",
           "func", 2, 9), Token("ID", "f", 2, 14), Token("LPAREN", "(", 2,
           15), Token("RPAREN", ")", 2, 16), Token("RETURNS", "returns", 2,
           18), Token("LBRACE", "{", 2, 26), Token("ID", "x", 3, 32),
           Token("ASSIGN", "=", 3, 34), Token("NUMBER", 1, 3, 36),
           Token("RBRACE", "}", 4, 38)>>)

\* func f() returns {
\*     import pragma.cub
\* }
unit_inner_pragma ==
    Unit(<<"func f() returns {", "\n", "    import pragma.cub", "\n", "}", "\n">>,
         <<Token("FUNC", "func", 1, 0), Token("ID", "f", 1, 5), Token("LPAREN", "(",
           1, 6), Token("RPAREN", ")", 1, 7), Token("RETURNS", "returns", 1,
           9), Token("LBRACE", "{", 1, 17), Token("IMPORT", "import", 2,
           23), Token("ID", "pragma", 2, 30), Token("DOT", ".", 2, 36),
           Token("ID", "cub", 2, 37), Token("RBRACE", "}", 3, 41)>>)

\* x = =
unit_bad ==
    Unit(<<"x = =", "\n">>,
         <<Token("ID", "x", 1, 0), Token("ASSIGN", "=", 1, 2), Token("ASSIGN", "=",
           1, 4)>>)

\* func g() {
\*     x = =
\* }
unit_bad_inner ==
    Unit(<<"func g() {", "\n", "    x = =", "\n", "}", "\n">>,
         <<Token("FUNC", "func", 1, 0), Token("ID", "g", 1, 5), Token("LPAREN", "(",
           1, 6), Token("RPAREN", ")", 1, 7), Token("LBRACE", "{", 1, 9),
           Token("ID", "x", 2, 15), Token("ASSIGN", "=", 2, 17),
           Token("ASSIGN", "=", 2, 19), Token("RBRACE", "}", 3, 21)>>)

\* import pragma.cub
\* func f() returns {
\* }
\* func g() returns {
\* }
unit_two ==
    Unit(<<"import pragma.cub", "\n", "func f() returns {", "\n", "}", "\n",
         "func g() returns {", "\n", "}", "\n">>,
         <<Token("IMPORT", "import", 1, 0), Token("ID", "pragma", 1, 7), Token("DOT",
           ".", 1, 13), Token("ID", "cub", 1, 14), Token("FUNC", "func", 2,
           18), Token("ID", "f", 2, 23), Token("LPAREN", "(", 2, 24),
           Token("RPAREN", ")", 2, 25), Token("RETURNS", "returns", 2, 27),
           Token("LBRACE", "{", 2, 35), Token("RBRACE", "}", 3, 37),
           Token("FUNC", "func", 4, 39), Token("ID", "g", 4, 44),
           Token("LPAREN", "(", 4, 45), Token("RPAREN", ")", 4, 46),
           Token("RETURNS", "returns", 4, 48), Token("LBRACE", "{", 4, 56),
           Token("RBRACE", "}", 5, 58)>>)

-----------------------------------------------------------------------------
(* The parser and the library files *)

Programs ==
    {sample, prog_point, prog_setx, prog_alias, prog_triple,
     prog_variadic_struct,
     prog_arity_ok, prog_arity_few, prog_arity_many, prog_arity_struct,
     prog_noargs, prog_noargs_extra, prog_varargs, prog_varargs_one,
     prog_for0, prog_for1, prog_for2, prog_for3, prog_for_continue,
     prog_for_break, prog_while_break, prog_if_break, prog_nested_break,
     prog_top_break, prog_top_continue, prog_func_break,
     prog_forin, prog_forin_break, prog_forin_continue,
     prog_import, prog_import_twice, prog_import_missing,
     prog_import_then_missing, prog_import_arity, prog_pragma}

Libraries == {lib_m_stdlib, lib_m_site}

\* one-line assignments of an arithmetic expression, parsed by the grammar
Expressions ==
    {expr_add_mul, expr_mul_add, expr_group, expr_sub_mul, expr_mul_sub,
     expr_pow_pow, expr_sub_sub, expr_add_sub}

\* sources that read the undefined variable foo
Diagnostics == {diag_end, diag_mid, diag_first, diag_call}

\* sources that fail part of the way, and sources that do what was done
\* before the failure
Failing == {err_assign, err_key, err_loop, err_syntax, err_two, err_done_x, err_done_loop}

\* a source that defines a variable, a struct and a function, and sources that
\* read one of them or a registered native
Session == {sess_define, sess_var, sess_struct, sess_func, sess_puts}

\* sources whose function reads a name bound in the local context, in the
\* global context or in both
Scopes == {scope_shadow, scope_other, scope_local, scope_global, scope_plain, scope_none}

\* sources whose function assigns to its parameters
Arguments == {arg_record, arg_plain, arg_caller}

\* sources whose function returns from its body, a branch or a loop
Returning == {ret_direct, ret_cond, ret_else, ret_loop, ret_while, ret_last}

\* sources whose binary operations have operands that print
Operands ==
    {bin_and, bin_or, bin_and_true, bin_add, bin_left, bin_right, bin_compare}

Sources ==
    Expressions \cup Diagnostics \cup Failing \cup Scopes \cup Arguments
        \cup Returning \cup Operands

\* units that declare a function with or without `returns`, with the pragma
\* import before it, after it, inside it or nowhere
Units ==
    {unit_plain, unit_returns, unit_pragma, unit_pragma_returns, unit_returns_pragma,
     unit_import_returns, unit_inner_pragma, unit_two, unit_bad, unit_bad_inner}

\* the units a shell forwards that parse
Typed ==
    {typed_x, typed_key, typed_paren, typed_paren_blank, typed_paren_blanks,
     typed_brack, typed_brack_blank, typed_brack_blanks}

Texts == Programs \cup Libraries \cup Sources \cup Session \cup Typed

\* Parser.parse_text: the tree of each text above; any other text does not
\* parse
parse_text ==
    [text \in {s.text : s \in Texts} |-> (CHOOSE s \in Texts : s.text = text).tree]

STDLIB_PATH == "stdlib"
SITE_PATH   == "site"

\* the files under the library roots, by <<root, file name>>
Files ==
    (<<STDLIB_PATH, <<"m", ".ox">>>> :> lib_m_stdlib.text)
    @@ (<<SITE_PATH, <<"m", ".ox">>>> :> lib_m_site.text)

-----------------------------------------------------------------------------
(* The visitors of Runtime *)

\* Every visitor reaches the nodes below it through visit, as self.visit does;
\* self.visit_Body and self.visit_Assign, which the code calls on a Body and
\* on an Assign node, are what visit selects for these nodes.
\* The loops of the visitors (a comprehension, a for, a while) are unrolled
\* one round at a time through visit as well, as the nodes Each, Decls,
\* Rounds and Items that hold what is left of the loop.
RECURSIVE visit(_, _, _)

Each(nodes)        == [kind |-> "each of", nodes |-> nodes]
Decls(decls, k)    == [kind |-> "decls from", decls |-> decls, k |-> k]
Rounds(node, n)    == [kind |-> "rounds of", node |-> node, n |-> n]
Items(node, items) == [kind |-> "items of", node |-> node, items |-> items]

execute(text, st) ==
    LET st1 == Log([st EXCEPT !.code = splitlines(text)],
                   [ev |-> "execute", text |-> text])
    IN  IF text \notin DOMAIN parse_text \/ parse_text[text].kind = SyntaxError.kind
        THEN Raise(st1, [exc |-> "ParserError"])
        ELSE visit(parse_text[text], st1.context, st1)

\* [self.visit(n, context) for n in nodes]
visit_each(nodes, ctx, st) ==
    IF nodes = <<>> THEN Ok(st, <<>>)
    ELSE LET r == visit(Head(nodes), ctx, st)
         IN  IF Failed(r) THEN r
             ELSE LET rs == visit(Each(Tail(nodes)), ctx, r.st)
                  IN  IF Failed(rs) THEN rs
                      ELSE Ok(rs.st, <<r.val>> \o rs.val)

\* the library text the loop over lib_paths ends with; found = FALSE is
\* Python's None
RECURSIVE read_library(_, _, _)
read_library(paths, filename, found) ==
    IF paths = <<>> THEN found
    ELSE read_library(Tail(paths), filename,
                      IF <<Head(paths), filename>> \in DOMAIN Files
                      THEN [found |-> TRUE, root |-> Head(paths),
                            text |-> Files[<<Head(paths), filename>>]]
                      ELSE found)

visit_Import(node, ctx, st) ==
    IF startswith(node.module, <<"pragma">>) THEN Ok(st, NoneV)
    ELSE LET lib == read_library(st.lib_paths, node.module \o <<".ox">>,
                                 [found |-> FALSE])
         IN  IF ~lib.found THEN error(st, node, LibraryNotFound(node.module))
             ELSE execute(lib.text,
                          Log(st, [ev |-> "Import", module |-> node.module,
                                   root |-> lib.root]))

visit_Comment(node, ctx, st) == Ok(st, NoneV)

visit_Constant(node, ctx, st) == Ok(st, node.value)

visit_Variable(node, ctx, st) ==
    LET name == split(node.name, ".")
        keys == [i \in 1..Len(name) |-> StrV(name[i])]
        caught(r) == r.exc.exc \in {"KeyError", "TypeError"}
        local == _deep_get(st.heap, DictV(ctx), keys)
        global == _deep_get(st.heap, DictV(st.context), keys)
    IN  IF ~caught(local) THEN [st |-> st, val |-> local.val, exc |-> local.exc]
        ELSE IF ~caught(global)
             THEN [st |-> st, val |-> global.val, exc |-> global.exc]
             ELSE error(st, node, UndefinedVariable(node.name))

\* an assignment that binds its target before it evaluates the value
visit_Assign_bind_first(node, ctx, st) ==
    LET w == _deep_set(st.heap, DictV(ctx), split(node.var.name, "."), NoneV)
        r == visit(node.value, ctx,
                   Log(IF w.exc = NoExc THEN [st EXCEPT !.heap = w.heap] ELSE st,
                       [ev |-> "Assign", index |-> node.index]))
    IN  IF Failed(r) THEN r
        ELSE LET v == _deep_set(r.st.heap, DictV(ctx), split(node.var.name, "."), r.val)
             IN  IF v.exc # NoExc THEN Raise(r.st, v.exc)
                 ELSE Ok([r.st EXCEPT !.heap = v.heap], NoneV)

visit_Assign(node, ctx, st) ==
    LET r == visit(node.value, ctx, Log(st, [ev |-> "Assign", index |-> node.index]))
    IN  IF Failed(r) THEN r
        ELSE LET w == _deep_set(r.st.heap, DictV(ctx), split(node.var.name, "."), r.val)
             IN  IF w.exc # NoExc THEN Raise(r.st, w.exc)
                 ELSE Ok([r.st EXCEPT !.heap = w.heap], NoneV)

visit_Function(node, ctx, st) ==
    Ok([st EXCEPT !.heap = setitem(@, DictV(ctx), node.name, NodeV(node)).heap], NoneV)

\* the dict visit_Call fills from zip(func.args, args)
RECURSIVE new_context(_, _, _)

\* new_context with each name bound to the argument after its own
new_context_off_by_one(names, args, count) ==
    [name \in {names[i] : i \in count..Min(Len(names), Len(args))} |->
        args[Min((CHOOSE i \in count..Len(names) : names[i] = name) + 1, Len(args))]]

new_context(names, args, count) ==
    IF count > Min(Len(names), Len(args)) THEN <<>>
    ELSE IF endswith(names[count], Ellipsis)
         THEN (names[count] :> ListV(slice_from(args, count - 1)))
         ELSE new_context(names, args, count + 1) @@ (names[count] :> args[count])

\* visit_Call from the new context on: a native is called, a body is visited
\* in the new context, a struct gives the new context itself
call_in(func, args, addr, st) ==
    IF func.kind = "Function"
    THEN IF func.body.kind # "Body"
         THEN call_builtin(func.body.fn, args, st)
         ELSE IF st.depth >= MaxDepth
              THEN Raise(st, [exc |-> "RecursionError"])
              ELSE LET r == visit(func.body, addr, [st EXCEPT !.depth = @ + 1])
                   IN  [r EXCEPT !.st.depth = @ - 1]
    ELSE Ok(st, DictV(addr))

\* visit_Call from the evaluated arguments a on: the new context is filled
\* and put on the heap
call_with(node, func, a) ==
    IF Failed(a) THEN a
    ELSE call_in(func, a.val, Len(a.st.heap) + 1,
                 Log([a.st EXCEPT !.heap = Append(@, new_context(func.args, a.val, 1))],
                     [ev |-> "Call", index |-> node.index,
                      name |-> func.name, params |-> func.args, args |-> a.val,
                      callee |-> IF func.kind = "Struct" THEN "Struct"
                                 ELSE func.body.kind,
                      new_context |-> new_context(func.args, a.val, 1)]))

\* visit_Call from the value f the callee's name resolves to on
call_of(node, ctx, st, f) ==
    IF Failed(f) THEN f
    ELSE IF ~(f.val.t = "node" /\ f.val.v.kind \in {"Function", "Struct"})
    THEN error(st, node, NotCallable(node.name))
    ELSE IF f.val.v.args = <<>> THEN Raise(st, IndexError)
    ELSE IF /\ ~endswith(f.val.v.args[Len(f.val.v.args)], Ellipsis)
            /\ Len(f.val.v.args) # Len(node.args)
    THEN error(st, node, ArityMismatch(f.val.v.name, Len(f.val.v.args), Len(node.args)))
    ELSE call_with(node, f.val.v, visit(Each(node.args), ctx, st))

visit_Call(node, ctx, st) == call_of(node, ctx, st, visit_Variable(node, ctx, st))

visit_FunctionReturn(node, ctx, st) == visit(node.expr, ctx, st)

visit_UnaryOp(node, ctx, st) ==
    LET r == visit(node.right, ctx, st)
    IN  IF Failed(r) THEN r
        ELSE LET u == unary_operator(UNOP_MAP[node.op], r.st.heap, r.val)
             IN  [st |-> r.st, val |-> u.val, exc |-> u.exc]

\* a binary operation that evaluates its right operand before its left one
visit_BinaryOp_right_first(node, ctx, st) ==
    LET r == visit(node.right, ctx, st)
    IN  IF Failed(r) THEN r
        ELSE LET l == visit(node.left, ctx, r.st)
             IN  IF Failed(l) THEN l
                 ELSE LET b == operator(BINOP_MAP[node.op], l.val, r.val)
                      IN  [st |-> l.st, val |-> b.val, exc |-> b.exc]

visit_BinaryOp(node, ctx, st) ==
    LET l == visit(node.left, ctx, st)
    IN  IF Failed(l) THEN l
        ELSE LET r == visit(node.right, ctx, l.st)
             IN  IF Failed(r) THEN r
                 ELSE LET b == operator(BINOP_MAP[node.op], l.val, r.val)
                      IN  [st |-> r.st, val |-> b.val, exc |-> b.exc]

visit_decls(decls, k, ctx, st) ==
    IF k > Len(decls) THEN Ok(st, NoneV)
    ELSE LET decl == decls[k]
         IN  IF decl = Keyword("continue") THEN Ok(st, CONTINUE)
             ELSE IF decl = Keyword("break") THEN Ok(st, BREAK)
             ELSE LET r == visit(decl, ctx, st)
                  IN  IF Failed(r) THEN r
                      ELSE IF decl.kind = "FunctionReturn" THEN r
                      ELSE visit(Decls(decls, k + 1), ctx, r.st)

visit_Body(node, ctx, st) ==
    visit(Decls(node.decls, 1), ctx, Log(st, [ev |-> "Body", index |-> node.index]))

visit_Struct(node, ctx, st) ==
    Ok([st EXCEPT !.heap = setitem(@, DictV(ctx), node.name, NodeV(node)).heap], NoneV)

visit_Array(node, ctx, st) ==
    LET r == visit(Each(node.exprs), ctx, st)
    IN  IF Failed(r) THEN r ELSE Ok(r.st, ListV(r.val))

visit_Index(node, ctx, st) ==
    LET target == visit(node.target, ctx, st)
    IN  IF Failed(target) THEN target
        ELSE LET by == visit(Each(node.by), ctx, target.st)
             IN  IF Failed(by) THEN by
                 ELSE LET g == _deep_get(by.st.heap, target.val, by.val)
                      IN  [st |-> by.st, val |-> g.val, exc |-> g.exc]

visit_Conditional(node, ctx, st) ==
    LET c == visit(node.cond, ctx, st)
    IN  IF Failed(c) THEN c
        ELSE IF truthy(c.st.heap, c.val)
        THEN LET b == visit(node.body, ctx, c.st)
             IN  IF Failed(b) THEN b ELSE Ok(b.st, NoneV)
        ELSE IF node.orelse # NoNode
             THEN LET e == visit(node.orelse, ctx, c.st)
                  IN  IF Failed(e) THEN e ELSE Ok(e.st, NoneV)
             ELSE Ok(c.st, NoneV)

\* loop with the update assignment run before the body instead of after it
loop_update_first(node, ctx, st, n) ==
    IF n > MaxIter THEN Raise(st, [exc |-> "Nontermination"])
    ELSE
    LET c == visit(node.cond, ctx, Log(st, [ev |-> "cond", index |-> node.index]))
    IN  IF Failed(c) THEN c
        ELSE IF truthy(c.st.heap, c.val)
        THEN LET p == IF node.postloop # NoNode
                      THEN visit(node.postloop, ctx, c.st)
                      ELSE Ok(c.st, NoneV)
             IN  IF Failed(p) THEN p
                 ELSE LET result == visit(node.body, ctx, p.st)
                      IN  IF Failed(result) THEN result
                          ELSE IF result.val = BREAK THEN Ok(result.st, NoneV)
                          ELSE visit(Rounds(node, n + 1), ctx, result.st)
        ELSE Ok(c.st, NoneV)

\* the `while True` of visit_Loop; n counts the iterations begun
loop(node, ctx, st, n) ==
    IF n > MaxIter THEN Raise(st, [exc |-> "Nontermination"])
    ELSE
    LET c == visit(node.cond, ctx, Log(st, [ev |-> "cond", index |-> node.index]))
    IN  IF Failed(c) THEN c
        ELSE IF truthy(c.st.heap, c.val)
        THEN LET result == visit(node.body, ctx, c.st)
             IN  IF Failed(result) THEN result
                 ELSE IF result.val = BREAK THEN Ok(result.st, NoneV)
                 ELSE IF node.postloop # NoNode
                      THEN LET p == visit(node.postloop, ctx, result.st)
                           IN  IF Failed(p) THEN p
                               ELSE visit(Rounds(node, n + 1), ctx, p.st)
                      ELSE visit(Rounds(node, n + 1), ctx, result.st)
        ELSE Ok(c.st, NoneV)

visit_Loop(node, ctx, st) ==
    IF node.preloop # NoNode
    THEN LET p == visit(node.preloop, ctx, st)
         IN  IF Failed(p) THEN p ELSE visit(Rounds(node, 0), ctx, p.st)
    ELSE visit(Rounds(node, 0), ctx, st)

\* the `for item in expr` of visit_ForInLoop over the items left
for_items(node, items, ctx, st) ==
    IF items = <<>> THEN Ok(st, NoneV)
    ELSE LET bound == [st EXCEPT
                          !.heap = setitem(@, DictV(ctx), node.var.name, Head(items)).heap]
             r == visit(node.body, ctx,
                             Log(bound, [ev |-> "item", index |-> node.index,
                                         item |-> Head(items)]))
         IN  IF Failed(r) THEN r
             ELSE visit(Items(node, Tail(items)), ctx, r.st)

visit_ForInLoop(node, ctx, st) ==
    LET expr == visit(node.expr, ctx, st)
    IN  IF Failed(expr) THEN expr
        ELSE IF expr.val.t \notin {"str", "list"}
        THEN error(expr.st, node, NotIterable)
        ELSE visit(Items(node,
                         IF expr.val.t = "str"
                         THEN [i \in 1..Len(expr.val.v) |-> StrV(<<expr.val.v[i]>>)]
                         ELSE expr.val.v),
                   ctx, expr.st)

\* print(f"unimplemented visit for node {node}")
visit_generic(node, ctx, st) ==
    Ok([st EXCEPT !.out = Append(@, [values |-> <<StrV(<<"unimplemented visit for node ">>)>>,
                                     end |-> "\n"])],
       NoneV)

\* the node a reference leads to, among the objects of a conditional
Linked(nodes, at) == [kind |-> "Linked", nodes |-> nodes, at |-> at]

\* a branch of visit_Conditional ended: the call returns None
branch_done(r, hops) ==
    IF Failed(r) THEN [r EXCEPT !.st.depth = @ - hops]
    ELSE Ok([r.st EXCEPT !.depth = @ - hops], NoneV)

\* visit_Conditional once node.cond is evaluated, for a node whose orelse is
\* a reference; the visit of orelse nests one call deeper
visit_Linked_cond(nodes, node, ctx, c) ==
    IF Failed(c) THEN c
    ELSE IF truthy(c.st.heap, c.val)
    THEN branch_done(visit(node.body, ctx, c.st), 0)
    ELSE IF node.orelse # NoNode
         THEN IF c.st.depth >= MaxDepth
              THEN Raise(c.st, [exc |-> "RecursionError"])
              ELSE branch_done(visit(Linked(nodes, node.orelse.at), ctx,
                                     [c.st EXCEPT !.depth = @ + 1]), 1)
         ELSE Ok(c.st, NoneV)

\* Runtime.visit of an object of a conditional
visit_Linked(node, ctx, st) ==
    IF node.nodes[node.at].kind = "Conditional"
    THEN visit_Linked_cond(node.nodes, node.nodes[node.at], ctx,
                           visit(node.nodes[node.at].cond, ctx, st))
    ELSE visit(node.nodes[node.at], ctx, st)

visit(node, ctx, st) ==
    CASE node.kind = "Import"         -> visit_Import(node, ctx, st)
      [] node.kind = "Comment"        -> visit_Comment(node, ctx, st)
      [] node.kind = "Constant"       -> visit_Constant(node, ctx, st)
      [] node.kind = "Variable"       -> visit_Variable(node, ctx, st)
      [] node.kind = "Assign"         -> visit_Assign(node, ctx, st)
      [] node.kind = "Function"       -> visit_Function(node, ctx, st)
      [] node.kind = "Call"           -> visit_Call(node, ctx, st)
      [] node.kind = "FunctionReturn" -> visit_FunctionReturn(node, ctx, st)
      [] node.kind = "UnaryOp"        -> visit_UnaryOp(node, ctx, st)
      [] node.kind = "BinaryOp"       -> visit_BinaryOp(node, ctx, st)
      [] node.kind = "Body"           -> visit_Body(node, ctx, st)
      [] node.kind = "Struct"         -> visit_Struct(node, ctx, st)
      [] node.kind = "Array"          -> visit_Array(node, ctx, st)
      [] node.kind = "Index"          -> visit_Index(node, ctx, st)
      [] node.kind = "Conditional"    -> visit_Conditional(node, ctx, st)
      [] node.kind = "Linked"         -> visit_Linked(node, ctx, st)
      [] node.kind = "Loop"           -> visit_Loop(node, ctx, st)
      [] node.kind = "ForInLoop"      -> visit_ForInLoop(node, ctx, st)
      [] node.kind = "each of"        -> visit_each(node.nodes, ctx, st)
      [] node.kind = "decls from"     -> visit_decls(node.decls, node.k, ctx, st)
      [] node.kind = "rounds of"      -> loop(node.node, ctx, st, node.n)
      [] node.kind = "items of"       -> for_items(node.node, node.items, ctx, st)
      [] OTHER                        -> visit_generic(node, ctx, st)

-----------------------------------------------------------------------------
(* The runtime as a state machine: the operations a host performs on it *)

\* Runtime.register
register(h, ctx, name, args, func) ==
    setitem(h, DictV(ctx), name, NodeV(Function(0, 0, name, args, Native(func)))).heap

\* a reset that keeps the dict of the global context
_new_context_same_dict(h) ==
    LET h0 == IF h = <<>> THEN <<<<>>>> ELSE h
        h1 == register(h0, 1, <<"print">>, <<<<"values", ".", ".", ".">>>>, "print")
        h2 == register(h1, 1, <<"println">>, <<<<"values", ".", ".", ".">>>>, "println")
    IN  [heap |-> h2, context |-> 1]

\* Runtime._new_context: a fresh dict holding the two default natives
_new_context(h) ==
    LET addr == Len(h) + 1
        h0 == Append(h, <<>>)
        h1 == register(h0, addr, <<"print">>, <<<<"values", ".", ".", ".">>>>, "print")
        h2 == register(h1, addr, <<"println">>, <<<<"values", ".", ".", ".">>>>, "println")
    IN  [heap |-> h2, context |-> addr]

Init ==
    /\ heap = _new_context(<<>>).heap
    /\ context = _new_context(<<>>).context
    /\ lib_paths = <<STDLIB_PATH>>
    /\ code = <<>>
    /\ last = [op |-> "init"]
    /\ calls = 0
    /\ parser = NewParser
    /\ shell = NewShell
    /\ scorpion = NewStream

Running ==
    [heap |-> heap, context |-> context, code |-> code, lib_paths |-> lib_paths,
     out |-> <<>>, trace |-> <<>>, depth |-> 0]

\* Runtime.execute(text), whatever it raises
Executes(text) ==
    /\ LET r == execute(text, Running)
       IN  /\ heap' = r.st.heap
           /\ context' = r.st.context
           /\ code' = r.st.code
           /\ last' = [op |-> "execute", text |-> text, exc |-> r.exc,
                       out |-> r.st.out, trace |-> r.st.trace]
    /\ calls' = calls + 1
    /\ UNCHANGED <<lib_paths, outside>>

Execute(text) == calls < MaxCalls /\ Executes(text)

\* Runtime.reset()
Resets ==
    /\ heap' = _new_context(heap).heap
    /\ context' = _new_context(heap).context
    /\ last' = [op |-> "reset"]
    /\ calls' = calls + 1
    /\ UNCHANGED <<lib_paths, code, outside>>

Reset == calls < MaxCalls /\ Resets

\* Runtime.register(name, args)(func)
Registers(name, args, func) ==
    /\ heap' = register(heap, context, name, args, func)
    /\ last' = [op |-> "register", name |-> name]
    /\ calls' = calls + 1
    /\ UNCHANGED <<context, lib_paths, code, outside>>

Register(name, args, func) == calls < MaxCalls /\ Registers(name, args, func)

\* the host assigns Runtime.lib_paths
SetLibPaths(paths) ==
    /\ calls < MaxCalls
    /\ paths # lib_paths
    /\ lib_paths' = paths
    /\ last' = [op |-> "lib_paths"]
    /\ calls' = calls + 1
    /\ UNCHANGED <<context, heap, code, outside>>

LibPathChoices ==
    {<<STDLIB_PATH>>, <<STDLIB_PATH, SITE_PATH>>, <<SITE_PATH, STDLIB_PATH>>, <<>>}

Next ==
    \/ \E s \in Programs : Execute(s.text)
    \/ Reset
    \/ \E name \in {<<"puts">>, <<"f">>},
          args \in {<<<<"values", ".", ".", ".">>>>, <<<<"a">>>>} :
            Register(name, args, "println")
    \/ \E paths \in LibPathChoices : SetLibPaths(paths)

Spec == Init /\ [][Next]_vars


\* the host runs the second set of sources
NextSources ==
    \/ \E s \in Sources : Execute(s.text)
    \/ Reset

SpecSources == Init /\ [][NextSources]_vars

\* a host session of execute, register and reset calls
MaxSession == 3

NextSession ==
    /\ calls < MaxSession
    /\ \/ \E s \in Session : Executes(s.text)
       \/ Resets
       \/ Registers(<<"puts">>, <<<<"values", ".", ".", ".">>>>, "println")

SpecSession == Init /\ [][NextSession]_vars

-----------------------------------------------------------------------------
(* A Parser the host drives directly *)

\* units parsed one after another by the same Parser
MaxParses == 5

\* Parser.parse_text(text)
ParseText(u) ==
    /\ calls < MaxParses
    /\ parser' = [Parser_parse(parser, u.tokens).p EXCEPT !.code = splitlines(u.text)]
    /\ last' = [op |-> "parse_text", text |-> u.text,
                exc |-> Parser_parse(parser, u.tokens).exc]
    /\ calls' = calls + 1
    /\ UNCHANGED <<context, heap, lib_paths, code, shell, scorpion>>

NextParser == \E u \in Units : ParseText(u)

SpecParser == Init /\ [][NextParser]_vars

-----------------------------------------------------------------------------
(* The interactive shell (Shell.interact) around the Runtime above *)

\* "\n".join(code)
RECURSIVE join(_)
join(lines) ==
    IF lines = <<>> THEN <<>>
    ELSE IF Len(lines) = 1 THEN lines[1]
    ELSE lines[1] \o <<"\n">> \o join(Tail(lines))

\* the number of chars of the line that are c
count(line, c) == Cardinality({i \in DOMAIN line : line[i] = c})

\* a shell that takes the unit for complete when the parentheses balance
is_complete_parens(counter) == counter["("] = counter[")"]

\* the for loop over the three pairs: complete when no pair differs
is_complete(counter) == \A pair \in Pairs : counter[pair[1]] = counter[pair[2]]

\* the end of a round that forwarded the unit: the evaluator returned or
\* raised r.exc; a RuntimeError is printed, any other exception ends interact
forwarded(lines, counter, r, caught) ==
    /\ heap' = r.st.heap
    /\ context' = r.st.context
    /\ code' = r.st.code
    /\ shell' = IF caught
                THEN NewShell
                ELSE [code |-> lines, counter |-> counter, complete |-> TRUE,
                      running |-> FALSE]
    /\ last' = [op |-> "line", line |-> lines[Len(lines)], forwarded |-> TRUE,
                text |-> join(lines), exc |-> r.exc, printed |-> caught /\ Failed(r),
                out |-> r.st.out, trace |-> r.st.trace]

\* whether `except RuntimeError` catches the exception; the class of
\* ParserError is not in the sources, so it may or may not be caught
catches(e, choice) ==
    IF e.exc = "ParserError" THEN choice ELSE e.exc \in {"none", "RuntimeError"}

\* the unit was forwarded and the evaluator returned or raised r.exc
forward(lines, counter, r) ==
    \E choice \in BOOLEAN : forwarded(lines, counter, r, catches(r.exc, choice))

\* the round after the line was appended and its brackets counted
appended(lines, counter, line) ==
    IF is_complete(counter)
    THEN forward(lines, counter, execute(join(lines), Running))
    ELSE /\ shell' = [shell EXCEPT !.code = lines, !.counter = counter,
                                   !.complete = FALSE]
         /\ last' = [op |-> "line", line |-> line, forwarded |-> FALSE]
         /\ UNCHANGED <<context, heap, code>>

\* one round of the loop of interact: a line is read
ReadLine(line) ==
    /\ shell.running
    /\ calls < MaxReads
    /\ Len(shell.code) < MaxLines
    /\ IF line = <<>> /\ shell.complete
       THEN /\ last' = [op |-> "line", line |-> line, forwarded |-> FALSE]
            /\ UNCHANGED <<context, heap, code, shell>>
       ELSE appended(Append(shell.code, line),
                     [c \in Brackets |-> shell.counter[c] + count(line, c)],
                     line)
    /\ calls' = calls + 1
    /\ UNCHANGED <<lib_paths, parser, scorpion>>

NextShell == \E line \in Lines : ReadLine(line)

SpecShell == Init /\ [][NextShell]_vars

-----------------------------------------------------------------------------
(* Instructions dumped back to back and loaded one after another *)

\* [b"lol", 256, 3.14, True], the instruction of test_bytecode
ins_test ==
    Instruction(Opcode.PUSH_CONST,
                <<BytesArg(<<108, 111, 108>>), IntArg(0, 256),
                  FloatArg(<<16393, 7864, 20971, 34079>>), BoolArg(TRUE)>>)

ins_none == Instruction(Opcode.ADD, <<>>)

\* [b""]
ins_empty == Instruction(Opcode.PUSH_CONST, <<BytesArg(<<>>)>>)

\* [-1, -2**31, 2**31 - 1]
ins_ints ==
    Instruction(Opcode.PUSH_CONST,
                <<IntArg(-1, 65535), IntArg(-32768, 0), IntArg(32767, 65535)>>)

\* [False, True]
ins_bools == Instruction(Opcode.NOT, <<BoolArg(FALSE), BoolArg(TRUE)>>)

\* [2.5, -0.0]
ins_floats ==
    Instruction(Opcode.POP,
                <<FloatArg(<<16388, 0, 0, 0>>), FloatArg(<<32768, 0, 0, 0>>)>>)

\* [b"ab", -1]
ins_mixed ==
    Instruction(Opcode.REG_STORE, <<BytesArg(<<97, 98>>), IntArg(-1, 65535)>>)

\* [2**31]
ins_big == Instruction(Opcode.PUSH_CONST, <<IntArg(32768, 0)>>)

\* [-2**31 - 1]
ins_small == Instruction(Opcode.PUSH_CONST, <<IntArg(-32769, 65535)>>)

\* [b"lol", 2**31]
ins_late ==
    Instruction(Opcode.PUSH_CONST, <<BytesArg(<<108, 111, 108>>), IntArg(32768, 0)>>)

\* [True] * 256
ins_many == Instruction(Opcode.PUSH_CONST, [k \in 1..256 |-> BoolArg(TRUE)])

\* [b"\0" * 65536]
ins_long == Instruction(Opcode.PUSH_CONST, <<BytesArg([k \in 1..(2^16) |-> 0])>>)

Instructions ==
    {ins_test, ins_none, ins_empty, ins_ints, ins_bools, ins_floats, ins_mixed,
     ins_big, ins_small, ins_late, ins_many, ins_long}

MaxDumped == 2      \* instructions in one stream

\* the end of ins.dump(): the bytes join the stream, or struct.error is raised
dumped(ins, r) ==
    /\ scorpion' = IF r.ok
                   THEN [scorpion EXCEPT !.bytecode = @ \o r.data,
                                         !.dumped = Append(@, ins)]
                   ELSE scorpion
    /\ last' = [op |-> "dump", opcode |-> ins.opcode, nargs |-> Len(ins.args),
                ok |-> r.ok, length |-> IF r.ok THEN Len(r.data) ELSE 0]

\* bytecode += ins.dump()
Dump(ins) ==
    /\ Len(scorpion.dumped) < MaxDumped
    /\ dumped(ins, dump(ins))
    /\ UNCHANGED <<context, heap, lib_paths, code, calls, parser, shell>>

\* the end of Instruction.load(bytecode, offset)
loaded(r) ==
    /\ scorpion' = IF r.ok
                   THEN [scorpion EXCEPT !.loaded = Append(@, r),
                                         !.offset = r.length]
                   ELSE scorpion
    /\ last' = [op |-> "load", ok |-> r.ok, from |-> scorpion.offset]

\* ins = Instruction.load(bytecode, offset); offset = ins.length
Load ==
    /\ Len(scorpion.loaded) < Len(scorpion.dumped)
    /\ loaded(load(scorpion.bytecode, scorpion.offset))
    /\ UNCHANGED <<context, heap, lib_paths, code, calls, parser, shell>>

NextScorpion == (\E ins \in Instructions : Dump(ins)) \/ Load

SpecScorpion == Init /\ [][NextScorpion]_vars

-----------------------------------------------------------------------------
(* Sources that are one conditional: `if` / `else if` / `else` *)

MaxBranches == 2    \* conditions in one chain

\* the conditions: 0, 1 and the variable r the bodies assign
Conditions == {<<"0">>, <<"1">>, <<"r">>}

\* the expression of a condition at the index
expr_of(c, index) ==
    IF c = <<"r">> THEN Variable(1, index, c)
    ELSE Constant(1, index, IntV(IF c = <<"1">> THEN 1 ELSE 0))

\* the body `{ r = k }` at the index
body_of(k, index) ==
    Body(1, index + 2, <<Assign(1, index + 4, Variable(1, index + 2, <<"r">>),
                                Constant(1, index + 6, IntV(k)))>>)

\* the texts of the three productions, each 17 chars long at most
text_if(c, k)      == <<"if ", c[1], " { r = ", <<"1", "2", "3">>[k], " } ">>
text_else_if(c, k) == <<"else ">> \o text_if(c, k)
text_else(k)       == <<"else", " { r = ", <<"1", "2", "3">>[k], " } ">>

\* the chains: one to MaxBranches conditions, then an `else` or nothing
Branches == UNION {[1..n -> Conditions] : n \in 1..MaxBranches}

RECURSIVE chain_text(_, _)
chain_text(conds, k) ==
    IF k > Len(conds) THEN <<>>
    ELSE (IF k = 1 THEN text_if(conds[k], k) ELSE text_else_if(conds[k], k))
         \o chain_text(conds, k + 1)

\* p._cond of Parser.cond: what Parser._cond returned for each production
chain_of(conds, else_) ==
    [k \in 1..(Len(conds) + IF else_ THEN 1 ELSE 0) |->
        IF k > Len(conds) THEN _cond(ELSE_(len(chain_text(conds, 1)),
                                           body_of(k, len(chain_text(conds, 1)) + 5)))
        ELSE IF k = 1 THEN _cond(IF_(0, expr_of(conds[1], 3), body_of(1, 5)))
        ELSE _cond(ELSE_IF(len(chain_text(SubSeq(conds, 1, k - 1), 1)),
                           expr_of(conds[k], len(chain_text(SubSeq(conds, 1, k - 1), 1)) + 8),
                           body_of(k, len(chain_text(SubSeq(conds, 1, k - 1), 1)) + 10)))]

Chain(conds, else_) ==
    [text |-> chain_text(conds, 1)
                \o (IF else_ THEN text_else(Len(conds) + 1) ELSE <<>>),
     conds |-> conds,
     else_ |-> else_,
     nodes |-> cond(chain_of(conds, else_))]

Chains == {Chain(conds, else_) : conds \in Branches, else_ \in BOOLEAN}

\* the end of Runtime.execute of a source that is one conditional
executed_cond(u, r) ==
    /\ heap' = r.st.heap
    /\ context' = r.st.context
    /\ code' = r.st.code
    /\ last' = [op |-> "execute", text |-> u.text, exc |-> r.exc,
                out |-> r.st.out, trace |-> r.st.trace, nodes |-> u.nodes]

\* Runtime.execute(text): the Body that Parser.parse_text returns holds the
\* root of the chain
ExecuteCond(u) ==
    /\ calls < MaxCalls
    /\ executed_cond(u, visit(Body(1, 0, <<Linked(u.nodes, 1)>>), context,
                              Log([Running EXCEPT !.code = splitlines(u.text)],
                                  [ev |-> "execute", text |-> u.text])))
    /\ calls' = calls + 1
    /\ UNCHANGED <<lib_paths, outside>>

NextCond == (\E u \in Chains : ExecuteCond(u)) \/ Reset

SpecCond == Init /\ [][NextCond]_vars

-----------------------------------------------------------------------------
(* Reading the record of the last operation *)

Executed(s) == last.op = "execute" /\ last.text = s.text

\* the values written to standard output, one per write
Output == [k \in 1..Len(last.out) |-> last.out[k].values[1]]

\* the events of the last execute that satisfy P, in order
TraceEvents(P(_)) == SelectSeq(IF last.op = "execute" THEN last.trace ELSE <<>>, P)

\* the events of the given kinds and node positions, in order
RECURSIVE Events(_, _)
Events(trace, wanted) ==
    IF trace = <<>> THEN <<>>
    ELSE LET e == Head(trace)
         IN  (IF e.ev \in {"Body", "Assign", "cond"} /\ <<e.ev, e.index>> \in wanted
              THEN <<<<e.ev, e.index>>>> ELSE <<>>)
             \o Events(Tail(trace), wanted)

RECURSIVE Repeat(_, _)
Repeat(s, n) == IF n = 0 THEN <<>> ELSE s \o Repeat(s, n - 1)

\* what reading the name in the global context yields in the current state
Read(name) == visit_Variable(Variable(1, 0, name), context, Running)

Reads(name, value) == Read(name).exc = NoExc /\ Read(name).val = value

IsArityError(name, expected, got) ==
    /\ last.exc.exc = "RuntimeError"
    /\ last.exc.message = ArityMismatch(name, expected, got)

\* m.ox exists under a root of the search path
ModuleFound == \E i \in DOMAIN lib_paths : <<lib_paths[i], <<"m", ".ox">>>> \in DOMAIN Files

-----------------------------------------------------------------------------
(* C1 *)

IsStructCall(e) == e.ev = "Call" /\ e.callee = "Struct" /\ Len(e.args) = Len(e.params)

NoVariadic(params) == \A i \in DOMAIN params : ~endswith(params[i], Ellipsis)

\* the record that maps the i-th field name to the i-th argument
FieldRecord(params, args) ==
    [name \in {params[i] : i \in DOMAIN params} |->
        args[CHOOSE i \in DOMAIN params : params[i] = name]]

PointRecords ==
    /\ Executed(prog_point) =>
          last.exc = NoExc /\ Reads(<<"p", ".", "x">>, IntV(1))
                           /\ Reads(<<"p", ".", "y">>, IntV(2))
    /\ Executed(sample) =>
          last.exc = NoExc /\ Reads(<<"p", ".", "x">>, IntV(9))
                           /\ Reads(<<"p", ".", "y">>, IntV(2))

\* `p.x = 9` executed where p is a record: the record gets x = 9 and nothing
\* else in any context changes
DottedAssign ==
    (Execute(prog_setx.text) /\ Read(<<"p">>).exc = NoExc /\ Read(<<"p">>).val.t = "dict") =>
        /\ last'.exc = NoExc
        /\ heap' = [heap EXCEPT ![Read(<<"p">>).val.v] = (<<"x">> :> IntV(9)) @@ @]
        /\ context' = context

\* C1 as stated, which a struct whose last field is variadic violates: every
\* struct instantiated with as many arguments as fields gives the record of
\* the i-th field name to the i-th argument.
C1_AnyStruct ==
    \A k \in DOMAIN TraceEvents(IsStructCall) :
        LET e == TraceEvents(IsStructCall)[k]
        IN  e.new_context = FieldRecord(e.params, e.args)

\* C1: after `struct Point { x, y }` and `p = Point(1, 2)` reading p.x yields
\* 1 and p.y yields 2, and after `p.x = 9` p.x yields 9 and p.y still 2; a
\* struct without a variadic field instantiated with as many arguments as
\* fields gives the record of the i-th field name to the i-th argument, and
\* a dotted assignment changes exactly the named field.
C1_StructRecords ==
    /\ [](PointRecords /\
            \A k \in DOMAIN TraceEvents(IsStructCall) :
                LET e == TraceEvents(IsStructCall)[k]
                IN  NoVariadic(e.params) => e.new_context = FieldRecord(e.params, e.args))
    /\ [][DottedAssign]_vars

C1_Witness ==
    /\ Executed(prog_setx)
    /\ last.exc = NoExc
    /\ Reads(<<"p", ".", "x">>, IntV(9))
    /\ Reads(<<"p", ".", "y">>, IntV(2))

-----------------------------------------------------------------------------
(* C2 *)

ArityCases ==
    {[prog |-> prog_arity_few,    name |-> <<"f">>,     expected |-> 2, got |-> 1],
     [prog |-> prog_arity_many,   name |-> <<"f">>,     expected |-> 2, got |-> 3],
     [prog |-> prog_arity_struct, name |-> <<"Point">>, expected |-> 2, got |-> 1],
     [prog |-> prog_import_arity, name |-> <<"f">>,     expected |-> 2, got |-> 1]}

\* C2: a call of a function or struct of n >= 1 plain parameters with another
\* number of arguments fails with the arity error naming both counts, and
\* the callee is not entered.
C2_ArityError ==
    \A c \in ArityCases :
        (Executed(c.prog) /\ (c.prog = prog_import_arity => ModuleFound)) =>
            /\ IsArityError(c.name, c.expected, c.got)
            /\ \A k \in DOMAIN last.trace :
                  ~(last.trace[k].ev = "Call" /\ last.trace[k].name = c.name)

-----------------------------------------------------------------------------
(* C3 *)

\* C3: `z()` for `func z() { println(0) return 7 }` passes the arity check
\* and evaluates the body; `z(1)` fails with the arity error.
C3_EmptyParameterList ==
    /\ Executed(prog_noargs) =>
          last.exc = NoExc /\ Output = <<IntV(0)>> /\ Reads(<<"r">>, IntV(7))
    /\ Executed(prog_noargs_extra) => IsArityError(<<"z">>, 0, 1)

-----------------------------------------------------------------------------
(* C4 *)

IsVariadicCall(e) ==
    e.ev = "Call" /\ e.callee = "Body" /\ e.params = <<<<"a">>, <<"b", ".", ".", ".">>>>

\* C4: `func g(a, b...)` accepts every call with one or more arguments, and
\* its body runs in a context with a bound to the first argument and b bound
\* to the list of the arguments after the first.
C4_VariadicBinding ==
    /\ \A k \in DOMAIN TraceEvents(IsVariadicCall) :
          LET e == TraceEvents(IsVariadicCall)[k]
          IN  e.new_context = (<<"a">> :> e.args[1]) @@ (<<"b">> :> ListV(Tail(e.args)))
    /\ Executed(prog_varargs) =>
          last.exc = NoExc /\ Reads(<<"r">>, ListV(<<IntV(2), IntV(3)>>))
    /\ Executed(prog_varargs_one) =>
          last.exc = NoExc /\ Reads(<<"r">>, IntV(1))

-----------------------------------------------------------------------------
(* C5 *)

ForPrograms == <<prog_for0, prog_for1, prog_for2, prog_for3>>

\* the init assignment, the condition, the body and the update of the loop
\* `for i = 0, i <= N, i += 1 { println(i) }`
ForInit   == <<"Assign", 4>>
ForCond   == <<"cond", 0>>
ForBody   == <<"Body", 32>>
ForUpdate == <<"Assign", 19>>

\* C5: the loop `for i = 0, i <= N, i += 1 { body }` ends without an error
\* after the init assignment ran once, followed by N+1 rounds of condition,
\* body, update and by one last condition check; the body sees i = 0, ..., N.
C5_ForLoopRuns ==
    \A n \in 0..(Len(ForPrograms) - 1) :
        Executed(ForPrograms[n + 1]) =>
            /\ last.exc = NoExc
            /\ Events(last.trace, {ForInit, ForCond, ForBody, ForUpdate})
                 = <<ForInit>> \o Repeat(<<ForCond, ForBody, ForUpdate>>, n + 1)
                               \o <<ForCond>>
            /\ Output = [k \in 1..(n + 1) |-> IntV(k - 1)]

C5_Witness ==
    /\ Executed(prog_for3)
    /\ Output = <<IntV(0), IntV(1), IntV(2), IntV(3)>>

-----------------------------------------------------------------------------
(* C6 *)

WhileCond == <<"cond", 6>>
WhileBody == <<"Body", 24>>

-----------------------------------------------------------------------------
(* C7 *)

\* the assignment `x = 1` that follows the top-level break or continue
IsAssignX(e) == e = [ev |-> "Assign", index |-> 6] \/ e = [ev |-> "Assign", index |-> 9]

\* C7: a break in an inner loop leaves the outer loop running; a break or
\* continue outside any loop raises an error or does nothing: the rest of
\* the program still runs and no call returns the signal.
C7_SignalsStayInLoop ==
    /\ Executed(prog_nested_break) =>
          last.exc = NoExc /\ Output = <<IntV(0), IntV(1)>>
    /\ (Executed(prog_top_break) \/ Executed(prog_top_continue)) =>
          last.exc # NoExc \/ TraceEvents(IsAssignX) # <<>>
    /\ Executed(prog_func_break) =>
          last.exc # NoExc \/ Read(<<"r">>).val \notin {BREAK, CONTINUE}

-----------------------------------------------------------------------------
(* C8 *)

IsItem(e) == e.ev = "item"

ItemsBound == [k \in DOMAIN TraceEvents(IsItem) |-> TraceEvents(IsItem)[k].item]

Chars(s) == [i \in DOMAIN s |-> StrV(<<s[i]>>)]

\* C8: a for-in loop binds the variable to each element in order and runs
\* the body once per element; a break on the k-th element ends the loop
\* after k body executions and a continue skips the rest of one iteration.
C8_ForInSignals ==
    /\ Executed(prog_forin) =>
          /\ last.exc = NoExc
          /\ ItemsBound = Chars(<<"a", "b">>)
          /\ Output = Chars(<<"a", "b">>)
    /\ Executed(prog_forin_continue) =>
          /\ last.exc = NoExc
          /\ ItemsBound = <<IntV(1), IntV(2)>>
          /\ Output = <<IntV(1), IntV(2)>>
    /\ Executed(prog_forin_break) =>
          /\ last.exc = NoExc
          /\ ItemsBound = Chars(<<"a">>)
          /\ Output = Chars(<<"a">>)

-----------------------------------------------------------------------------
(* C9 *)

IsImport(e) == e.ev = "Import"

\* the first root of the search path that holds the file
RECURSIVE first_root(_, _)
first_root(paths, filename) ==
    IF <<Head(paths), filename>> \in DOMAIN Files THEN Head(paths)
    ELSE first_root(Tail(paths), filename)

\* C9: an import of a module that is in several roots executes the source
\* found in the first of them.
C9_FirstRootWins ==
    \A k \in DOMAIN TraceEvents(IsImport) :
        TraceEvents(IsImport)[k].root
            = first_root(lib_paths, TraceEvents(IsImport)[k].module \o <<".ox">>)

-----------------------------------------------------------------------------
(* C10 *)

IsLibraryNotFound(module) ==
    /\ last.exc.exc = "RuntimeError"
    /\ last.exc.message = LibraryNotFound(module)

IsExecute(e) == e.ev = "execute"

\* C10: an import of a module that no root holds fails with the
\* library-not-found error naming it; an import of a module that is present
\* evaluates it in the importer's global context, so that its names are
\* visible after the import, and a second import executes it again.
C10_Import ==
    /\ Executed(prog_import_missing) =>
          IsLibraryNotFound(<<"nolib">>) /\ Len(TraceEvents(IsExecute)) = 1
    /\ (Executed(prog_import_then_missing) /\ ModuleFound) =>
          IsLibraryNotFound(<<"nolib">>)
    /\ (Executed(prog_import) /\ ~ModuleFound) => IsLibraryNotFound(<<"m">>)
    /\ (Executed(prog_import) /\ ModuleFound) =>
          /\ last.exc = NoExc
          /\ Read(<<"who">>).val.t = "str"
          /\ Reads(<<"w">>, Read(<<"who">>).val)
    /\ (Executed(prog_import_twice) /\ ModuleFound) =>
          last.exc = NoExc /\ Len(TraceEvents(IsExecute)) = 3 /\ Len(Output) = 2
-----------------------------------------------------------------------------
(* C11 *)

\* the value of r after the source was executed
Result(s, n) == Executed(s) => last.exc = NoExc /\ Reads(<<"r">>, IntV(n))

\* C11: `*` binds tighter than `+` and `-` whichever comes first, and
\* parentheses override: `2 + 3 * 4` is 14, `2 * 3 + 4` is 10, `(2 + 3) * 4`
\* is 20 (and `9 - 2 * 3` is 3, `2 * 3 - 1` is 5).
C11_Precedence ==
    /\ Result(expr_add_mul, 14)
    /\ Result(expr_mul_add, 10)
    /\ Result(expr_group, 20)
    /\ Result(expr_sub_mul, 3)
    /\ Result(expr_mul_sub, 5)

-----------------------------------------------------------------------------
(* C12 *)

\* the expression assigned by a one-line source
Assigned(s) == parse_text[s.text].decls[1].value

\* the tree of `(a op b) op c`
LeftNested(e) == e.kind = "BinaryOp" /\ e.left.kind = "BinaryOp" /\ e.right.kind = "Constant"

\* C12: operators of one precedence level associate to the left:
\* `2 ^ 3 ^ 2` parses as `(2 ^ 3) ^ 2` and is 64, `10 - 3 - 2` parses as
\* `(10 - 3) - 2` and is 5.
C12_LeftAssociative ==
    /\ Executed(expr_pow_pow) => LeftNested(Assigned(expr_pow_pow))
    /\ Result(expr_pow_pow, 64)
    /\ Executed(expr_sub_sub) => LeftNested(Assigned(expr_sub_sub))
    /\ Result(expr_sub_sub, 5)
    /\ Executed(expr_add_sub) => LeftNested(Assigned(expr_add_sub))

-----------------------------------------------------------------------------
(* C13 *)

\* where each source refers to foo: zero-indexed line and column
References ==
    {[src |-> diag_end,   line |-> 2, column |-> 4],
     [src |-> diag_mid,   line |-> 2, column |-> 4],
     [src |-> diag_first, line |-> 0, column |-> 8],
     [src |-> diag_call,  line |-> 2, column |-> 8]}

\* C13: the diagnostic for a reference to an undefined variable reports the
\* zero-indexed line and column of the reference and a caret run as long as
\* the variable's token (3 carets for foo), whatever follows on the line.
C13_Diagnostic ==
    \A c \in References :
        Executed(c.src) =>
            /\ last.exc.exc = "RuntimeError"
            /\ last.exc.message = UndefinedVariable(<<"foo">>)
            /\ last.exc.line = c.line
            /\ last.exc.pos = c.column
            /\ last.exc.arrows = len(<<"foo">>)

-----------------------------------------------------------------------------
(* C14 *)

\* a value with every record in it replaced by its fields
RECURSIVE Deep(_, _)
Deep(h, v) ==
    IF v.t = "dict" THEN [k \in DOMAIN h[v.v] |-> Deep(h, h[v.v][k])]
    ELSE IF v.t = "list" THEN [i \in DOMAIN v.v |-> Deep(h, v.v[i])]
    ELSE v

\* the bindings of the global context
Globals == Deep(heap, DictV(context))

\* the bindings of the global context after the text is executed here
GlobalsOf(r) == Deep(r.st.heap, DictV(r.st.context))

GlobalsAfter(text) == GlobalsOf(execute(text, Running))

\* a failing assignment at top level leaves what the statements before it did
SimpleFailures ==
    /\ Execute(err_assign.text) =>
          last'.exc # NoExc /\ Globals' = GlobalsAfter(err_done_x.text)
    /\ Execute(err_key.text) =>
          last'.exc # NoExc /\ Globals' = GlobalsAfter(err_done_x.text)

\* a source with a syntax error runs no statement
SyntaxFailure ==
    Execute(err_syntax.text) => last'.exc.exc = "ParserError" /\ Globals' = Globals

-----------------------------------------------------------------------------
(* C15 *)

\* the bindings of the global context of a new Runtime
NewGlobals(new) == Deep(new.heap, DictV(new.context))

InitialGlobals == NewGlobals(_new_context(<<>>))

IsUndefined(name) ==
    /\ last.exc.exc = "RuntimeError"
    /\ last.exc.message = UndefinedVariable(name)

\* what each source reads
Readers ==
    {[src |-> sess_var,    name |-> <<"x">>],
     [src |-> sess_struct, name |-> <<"Point">>],
     [src |-> sess_func,   name |-> <<"f">>],
     [src |-> sess_puts,   name |-> <<"puts">>]}

\* a dict that is no longer the global context still holds the name
DefinedBefore(name) == \E a \in DOMAIN heap : a # context /\ name \in DOMAIN heap[a]

\* C15: right after a reset the global context holds exactly the default
\* natives print and println, as in a new Runtime, whatever was executed or
\* registered before; a source executed next cannot read a variable,
\* function, struct or native defined before the reset.
C15_Reset ==
    /\ [](last.op = "reset" =>
            /\ Globals = InitialGlobals
            /\ DOMAIN heap[context] = {<<"print">>, <<"println">>})
    /\ [][\A c \in Readers :
            (last.op = "reset" /\ Executes(c.src.text)) =>
                /\ last'.exc.exc = "RuntimeError"
                /\ last'.exc.message = UndefinedVariable(c.name)
                /\ DOMAIN heap'[context'] = {<<"print">>, <<"println">>}]_vars

\* x was defined, the runtime was reset, and the source that reads x failed
C15_Witness ==
    /\ Executed(sess_var)
    /\ IsUndefined(<<"x">>)
    /\ DefinedBefore(<<"x">>)
    /\ DOMAIN heap[context] = {<<"print">>, <<"println">>}

-----------------------------------------------------------------------------
(* C16 *)

\* C16: in a function body `a.b` takes its root from the local context when
\* that binds a, and then never looks at the global a: the local record's
\* field is read, and a local a without a field b gives the
\* undefined-variable error; the global a is used only when there is no
\* local a. A plain name bound in both contexts reads the local value.
C16_RootFirst ==
    /\ Result(scope_local, 6)
    /\ Result(scope_global, 5)
    /\ Result(scope_plain, 2)
    /\ Executed(scope_none) => IsUndefined(<<"a", ".", "b">>)
    /\ Executed(scope_shadow) => IsUndefined(<<"a", ".", "b">>)
    /\ Executed(scope_other) => IsUndefined(<<"a", ".", "b">>)

-----------------------------------------------------------------------------
(* C17 *)

\* C17: arguments are passed by value: they are evaluated in the caller's
\* context, and nothing the callee does to its parameters reaches the
\* caller: after f(p), where f assigns q.x = 9 to its parameter, p.x is
\* still 1; assignments to plain names in the callee change neither the
\* caller's nor the global context.
C17_ByValue ==
    /\ Result(arg_caller, 2)
    /\ Executed(arg_plain) =>
          /\ last.exc = NoExc
          /\ Reads(<<"n">>, IntV(1))
          /\ Reads(<<"r">>, IntV(5))
          /\ <<"m">> \notin DOMAIN heap[context]
    /\ Executed(arg_record) =>
          /\ last.exc = NoExc
          /\ Reads(<<"r">>, IntV(0))
          /\ Reads(<<"p", ".", "x">>, IntV(1))

-----------------------------------------------------------------------------
(* C18 *)

Parsed_(u) == last.op = "parse_text" /\ last.text = u.text

Accepted(u) == Parsed_(u) => last.exc = NoExc

\* the parse failed with the parser error that names `returns`
Rejected(u) ==
    Parsed_(u) => last.exc.exc = "ParserError" /\ last.exc.message = RETURNS_INVALID

\* C18: whatever a parser parsed before, a function declared with `returns`
\* is accepted exactly when `import pragma.cub` comes earlier in the same
\* unit; otherwise the parse fails with the parser error naming `returns`.
\* A pragma of an earlier unit does not count, nor does an import that
\* comes after the declaration or inside its body.
C18_ReturnsNeedsPragma ==
    /\ Accepted(unit_plain)
    /\ Accepted(unit_pragma)
    /\ Accepted(unit_pragma_returns)
    /\ Accepted(unit_two)
    /\ Rejected(unit_returns)
    /\ Rejected(unit_returns_pragma)
    /\ Rejected(unit_import_returns)
    /\ Rejected(unit_inner_pragma)

-----------------------------------------------------------------------------
(* C19 *)

\* the counters of the shell once the line is counted
CountedAfter(line) == [c \in Brackets |-> shell.counter[c] + count(line, c)]

\* the counts of each pair of brackets are equal
Balanced(counter) ==
    /\ counter["("] = counter[")"]
    /\ counter["["] = counter["]"]
    /\ counter["{"] = counter["}"]

\* the buffer is empty and the six counters are zero
Cleared(sh) == sh.code = <<>> /\ \A c \in Brackets : sh.counter[c] = 0

\* the unit forwarded is the buffer with the line read, joined by newlines
ForwardsUnit ==
    last'.forwarded =>
        /\ last'.text = join(Append(shell.code, last'.line))
        /\ last'.trace # <<>>
        /\ last'.trace[1] = [ev |-> "execute", text |-> last'.text]

\* a round that forwards nothing leaves the runtime alone and keeps the line
ForwardsNothing ==
    (~last'.forwarded /\ ~Balanced(CountedAfter(last'.line))) =>
        /\ UNCHANGED <<context, heap, code>>
        /\ shell'.code = Append(shell.code, last'.line)
        /\ shell'.counter = CountedAfter(last'.line)

\* after a forward that returned or whose error was printed, the next line
\* is read with an empty buffer and zero counters
ClearedAfterForward ==
    (last'.forwarded /\ (last'.exc = NoExc \/ last'.printed)) =>
        shell'.running /\ Cleared(shell')

\* the names bound in the global namespace stay bound in it
NamespacePersists ==
    /\ context' = context
    /\ DOMAIN heap[context] \subseteq DOMAIN heap'[context']

\* C19 as stated: a line read is followed by a forward exactly when the
\* counts of `(` and `)`, of `[` and `]` and of `{` and `}` are each equal
\* after it.
C19_ForwardsWhenBalanced ==
    [][last'.op = "line" =>
        (last'.forwarded <=> Balanced(CountedAfter(last'.line)))]_vars

\* C19: the shell forwards the accumulated lines as one unit exactly when,
\* after a line is read, the three pairs of counts are each equal, except
\* that an empty line read while the buffer is empty is skipped and nothing
\* is forwarded; it forwards nothing while a pair is unbalanced; after every
\* forward that returned or raised an error that was printed the buffer is
\* empty and the six counters are zero; the global namespace persists.
C19_Forwards ==
    [][last'.op = "line" =>
        /\ last'.forwarded <=>
              /\ Balanced(CountedAfter(last'.line))
              /\ ~(last'.line = <<>> /\ shell.code = <<>>)
        /\ (last'.line = <<>> /\ shell.code = <<>>) => shell' = shell
        /\ ForwardsUnit
        /\ ForwardsNothing
        /\ ClearedAfterForward
        /\ NamespacePersists]_vars

\* `x = 1` was forwarded alone, then `r = (` was held back and forwarded
\* with `x)` as one unit of two lines, which read the x of the unit before
C19_Witness ==
    /\ last.op = "line"
    /\ last.forwarded
    /\ last.text = typed_paren.text
    /\ last.exc = NoExc
    /\ Cleared(shell)
    /\ Reads(<<"r">>, IntV(1))
    /\ Reads(<<"x">>, IntV(1))

-----------------------------------------------------------------------------
(* C20 *)

\* load gave the arguments of ins in their order and the length of the bytes
Loads(ins, data, l) == l.ok /\ l.args = ins.args /\ l.length = Len(data)

\* Instruction.load(ins.dump(), 0) gives ins.args and len(ins.dump())
RoundTrip(ins, r) == r.ok /\ Loads(ins, r.data, load(r.data, 0))

\* the argument fits its encoding: an int in -2^31 .. 2^31 - 1, a bytes value
\* of at most 2^16 - 1 bytes
Representable(arg) ==
    /\ arg.t = "int" => arg.v[1] >= -(2^15) /\ arg.v[1] < 2^15
    /\ arg.t = "bytes" => Len(arg.v) < 2^16

Encodable(ins) ==
    /\ Len(ins.args) < 2^8
    /\ \A k \in DOMAIN ins.args : Representable(ins.args[k])

\* the instruction loaded last is the one dumped at its place in the stream,
\* and once all are loaded the offset is the length of the stream
OneAfterAnother(k) ==
    /\ last'.ok
    /\ scorpion'.loaded[k].opcode = scorpion.dumped[k].opcode
    /\ scorpion'.loaded[k].args = scorpion.dumped[k].args
    /\ scorpion'.offset > scorpion.offset
    /\ k = Len(scorpion.dumped) => scorpion'.offset = Len(scorpion.bytecode)

-----------------------------------------------------------------------------
(* C21 *)

\* the object the orelse of the k-th object refers to, 0 when it has none
Link(nodes, k) ==
    IF nodes[k].kind = "Conditional" /\ nodes[k].orelse # NoNode
    THEN nodes[k].orelse.at
    ELSE 0

\* following orelse from the root visits each branch once and ends at no
\* link or at the terminal Body
Acyclic(nodes) ==
    \A k \in DOMAIN nodes : Link(nodes, k) = IF k < Len(nodes) THEN k + 1 ELSE 0

\* the condition is truthy in the runtime as it is
Truthy(c) ==
    \/ c = <<"1">>
    \/ c = <<"r">> /\ Read(c).exc = NoExc /\ truthy(heap, Read(c).val)

\* the condition can be evaluated
Evaluates(c) == c # <<"r">> \/ Read(c).exc = NoExc

IsBody(e) == e.ev = "Body"

IsAssign(e) == e.ev = "Assign"

\* the k-th body was executed and no other: r is k, and the trace holds the
\* Body of the source, one Body more and one assignment
RanOnly(k) ==
    /\ last'.exc = NoExc
    /\ Len(SelectSeq(last'.trace, IsBody)) = 2
    /\ Len(SelectSeq(last'.trace, IsAssign)) = 1
    /\ heap'[context'][<<"r">>] = IntV(k)

\* no body was executed and the call returned
RanNone ==
    /\ last'.exc = NoExc
    /\ Len(SelectSeq(last'.trace, IsBody)) = 1
    /\ SelectSeq(last'.trace, IsAssign) = <<>>
    /\ heap' = heap

\* what the claim says of the chain u once it is executed
FirstTruthy(u) ==
    IF \E k \in DOMAIN u.conds : Truthy(u.conds[k])
    THEN RanOnly(CHOOSE k \in DOMAIN u.conds :
                    Truthy(u.conds[k]) /\ \A j \in 1..(k - 1) : ~Truthy(u.conds[j]))
    ELSE IF u.else_ THEN RanOnly(Len(u.conds) + 1) ELSE RanNone

\* C21: the chain the parser builds for an `if` / `else if` / `else`
\* sequence is acyclic along orelse, and evaluating it executes exactly the
\* body of the first branch whose condition is truthy, or the `else` body
\* when none is; an `if` with no `else` whose condition is falsy executes no
\* body and terminates.
C21_Chain ==
    [][\A u \in Chains :
          (ExecuteCond(u) /\ \A k \in DOMAIN u.conds : Evaluates(u.conds[k])) =>
              Acyclic(u.nodes) /\ FirstTruthy(u)]_vars

-----------------------------------------------------------------------------
(* C22 *)

\* C22: a `return` ends the call at once with its value, whether it stands
\* directly in the function body, in a branch of a conditional or in a loop
\* body: `return 1` before other declarations gives 1, `return 1` in the
\* taken `if` branch gives 1, `return 3` in the taken `else` branch gives 3,
\* `return i` in the first round of a for loop gives 0 and `return 4` in the
\* first round of a while loop gives 4; a conditional that does not return
\* lets the body go on to its `return a`.
C22_EarlyExit ==
    /\ Result(ret_direct, 1)
    /\ Result(ret_cond, 1)
    /\ Result(ret_else, 3)
    /\ Result(ret_loop, 0)
    /\ Result(ret_while, 4)
    /\ Result(ret_last, 2)

-----------------------------------------------------------------------------
(* C23 *)

\* the source ran without error, its operands printed the values in this
\* order, one line each, and r reads the value
Evaluated(s, printed, value) ==
    Executed(s) =>
        /\ last.exc = NoExc
        /\ Output = printed
        /\ Reads(<<"r">>, value)

\* C23: a binary operation evaluates its left operand, then its right one,
\* each exactly once, and only then applies the operator, `&&` and `||`
\* included: the call on the right of `false && f(1)` and of `true || f(2)`
\* still prints, and the operands of nested operations print from left to
\* right.
C23_Eager ==
    /\ Evaluated(bin_and, <<IntV(1)>>, BoolV(FALSE))
    /\ Evaluated(bin_or, <<IntV(2)>>, BoolV(TRUE))
    /\ Evaluated(bin_and_true, <<IntV(1), IntV(2)>>, BoolV(TRUE))
    /\ Evaluated(bin_add, <<IntV(1), IntV(2)>>, IntV(3))
    /\ Evaluated(bin_left, <<IntV(1), IntV(2), IntV(3)>>, IntV(-4))
    /\ Evaluated(bin_right, <<IntV(1), IntV(2), IntV(3)>>, IntV(2))
    /\ Evaluated(bin_compare, <<IntV(2), IntV(1)>>, BoolV(FALSE))

\* `r = false && f(1)` was executed: f printed its argument and r is false
C23_Witness ==
    /\ Executed(bin_and)
    /\ last.exc = NoExc
    /\ Output = <<IntV(1)>>
    /\ Reads(<<"r">>, BoolV(FALSE))

-----------------------------------------------------------------------------
(* C24 *)

\* the parse of u failed with a parser error that names the context
ReportedIn(context_) ==
    /\ last'.exc.exc = "ParserError"
    /\ last'.exc.context = context_

\* C24: the context stack of the parser is empty when a parse starts, so a
\* syntax error outside every function and struct is reported with the
\* context `<global>`, also after an earlier parse by the same parser failed
\* inside a function declaration; an error inside `func g` names that
\* function.
C24_GlobalContext ==
    [][/\ (\E u \in Units : ParseText(u)) => parser.context_stack = <<>>
       /\ ParseText(unit_bad) => ReportedIn("<global>")
       /\ ParseText(unit_bad_inner) => ReportedIn(<<"func", " '", "g", "'">>)]_vars

====
